---- MODULE Spec2Model ----
(***************************************************************************)
(* Verification model of the quant_engine core: the FIFO event queue, the  *)
(* engine_base dispatcher loop and the order_queue order store.            *)
(*                                                                         *)
(* Three specifications share the variables:                               *)
(*   SpecQueue   - clients pushing to and popping from one event_queue     *)
(*   SpecEngine  - engine_base::run with its handlers (SpecEngineFair adds *)
(*                 the scheduling of the dispatcher thread)                *)
(*   SpecStore   - emplace / inactive on one order_queue                   *)
(***************************************************************************)
EXTENDS Integers, Sequences, FiniteSets, TLC

VARIABLES
    queue_,              \* event_queue::queue_ (std::queue<event>)
    oplog,               \* observer: the push/pop calls made on the queue, in order
    pc,                  \* position of the dispatcher thread inside run()
    paused_,             \* engine_base::paused_ (std::atomic<bool>)
    stop_,               \* what Derived::should_stop() currently answers
    on_error_rethrows,   \* TRUE: default on_error, FALSE: overridden to continue
    ticks,               \* the streamer's remaining-and-consumed tick sequence
    index,               \* DummyStreamer::index, ticks consumed so far
    tick_count,          \* run()'s local tick_count
    pf,                  \* portfolio_manager state
    resting,             \* the concrete executor's resting (unanswered) orders
    elog,                \* observer: the handler calls of the latest handle_event
    obs,                 \* observer: flags and counters about the run
    bids_,               \* order_queue::bids_ in iteration order
    asks_,               \* order_queue::asks_ in iteration order
    bid_index_,          \* order_queue::bid_index_  (order id -> node)
    asks_index_,         \* order_queue::asks_index_ (order id -> node)
    historical_ledger_,  \* order_queue::historical_ledger_
    slog,                \* observer: the store calls made, with the store before each
    xlog,                \* observer: the emit_fill/emit_cancel calls made on an executor
    manager,             \* the PortfolioManager<EventBus, MAX_SYMBOLS> object
    event_bus_,          \* the bus's emitted orders (MockEventBus::emitted_orders)
    plog,                \* observer: the manager calls that returned, in order
    thrown,              \* observer: the latest manager call if it threw
    prior                \* observer: the manager and the bus before the latest call

qvars == <<queue_, oplog>>
evars == <<pc, paused_, stop_, on_error_rethrows, ticks, index, tick_count, pf,
           resting, elog, obs>>
svars == <<bids_, asks_, bid_index_, asks_index_, historical_ledger_, slog, xlog>>
pvars == <<manager, event_bus_, plog, thrown, prior>>
vars == <<queue_, oplog, pc, paused_, stop_, on_error_rethrows, ticks, index,
          tick_count, pf, resting, elog, obs, bids_, asks_, bid_index_, asks_index_,
          historical_ledger_, slog, xlog, manager, event_bus_, plog, thrown, prior>>

(***************************************************************************)
(* Bounds of the model.                                                    *)
(***************************************************************************)
MaxQueueOps == 4     \* push/pop calls made by the clients of SpecQueue
MaxStoreOps == 4     \* emplace/inactive calls made by the clients of SpecStore
LedgerCapacity == 1  \* capacity of the historical ledger's ring buffer
MaxTicks == 2        \* ticks the market source holds at most
MaxEvents == 3       \* events the handlers push in one run at most
MaxExecOps == 3      \* emit_fill/emit_cancel calls made on the executor of SpecExec

(***************************************************************************)
(* Event model (events/event.hpp): one flat record per event; the fields a *)
(* kind does not have keep their zero value.  tick and src are observer    *)
(* fields: the tick being handled when the event was pushed, and the       *)
(* component that pushed it.                                               *)
(***************************************************************************)
Kinds == {"Market", "Signal", "Order", "Fill", "Cancel"}

BlankEvent ==
    [kind |-> "Signal", symbol_ |-> "", price_ |-> 0, order_id_ |-> "",
     quantity_ |-> 0, filled_qty_ |-> 0, is_buy_ |-> FALSE, timestamp_ |-> 0,
     reason_ |-> "", tick |-> 0, src |-> ""]

market_event(symbol, price, ts) ==
    [BlankEvent EXCEPT !.kind = "Market", !.symbol_ = symbol, !.price_ = price,
                       !.timestamp_ = ts]

signal_event == BlankEvent

order_event(symbol, id, qty, is_buy, price) ==
    [BlankEvent EXCEPT !.kind = "Order", !.symbol_ = symbol, !.order_id_ = id,
                       !.quantity_ = qty, !.is_buy_ = is_buy, !.price_ = price]

fill_event(symbol, id, filled, qty, is_buy, price) ==
    [BlankEvent EXCEPT !.kind = "Fill", !.symbol_ = symbol, !.order_id_ = id,
                       !.filled_qty_ = filled, !.quantity_ = qty,
                       !.is_buy_ = is_buy, !.price_ = price]

cancel_event(order, reason) ==
    [BlankEvent EXCEPT !.kind = "Cancel", !.symbol_ = order.symbol_,
                       !.order_id_ = order.order_id_,
                       !.quantity_ = order.quantity_,
                       !.is_buy_ = order.is_buy_, !.price_ = order.price_,
                       !.reason_ = reason]

(***************************************************************************)
(* event_queue (src/events/event_queue.cpp).  pop is a pure operator: it   *)
(* yields the queue after the call, the event returned and whether the     *)
(* call threw std::runtime_error("Queue empty!").                          *)
(***************************************************************************)
empty(q) == Len(q) = 0

size(q) == Len(q)

event_queue_push(q, ev) == Append(q, ev)

\* pop taking from the back of the container instead of the front
event_queue_pop_lifo(q) ==
    IF empty(q)
    THEN [threw |-> TRUE, ev |-> BlankEvent, q |-> q]
    ELSE [threw |-> FALSE, ev |-> q[Len(q)], q |-> SubSeq(q, 1, Len(q) - 1)]

\* pop without the empty check (front() of an empty container): hands back a
\* value-less event and reports no error
event_queue_pop_unchecked(q) ==
    IF empty(q)
    THEN [threw |-> FALSE, ev |-> BlankEvent, q |-> q]
    ELSE [threw |-> FALSE, ev |-> Head(q), q |-> Tail(q)]

event_queue_pop(q) ==
    IF empty(q)
    THEN [threw |-> TRUE, ev |-> BlankEvent, q |-> q]
    ELSE [threw |-> FALSE, ev |-> Head(q), q |-> Tail(q)]


(***************************************************************************)
(* Values of the variables a specification does not use.                   *)
(***************************************************************************)
QueueAtRest == queue_ = <<>> /\ oplog = <<>>

\* portfolio_manager after construction with starting cash c
NewPortfolio(c) ==
    [cash_ |-> c, quantity |-> 0, market_price |-> 0, trade_log_ |-> <<>>,
     cancel_count_ |-> 0, cancelled_order_ids_ |-> <<>>]

NoObservation ==
    [threw |-> FALSE, idled |-> FALSE, paused_seen |-> FALSE, pausing |-> FALSE,
     stop_in_pause |-> FALSE, fills |-> <<>>,
     handled |-> [k \in Kinds |-> 0], ncalls |-> 0, npushed |-> 0,
     norders |-> 0, last |-> BlankEvent]

EngineAtRest ==
    /\ pc = "not_running"
    /\ paused_ = FALSE
    /\ stop_ = FALSE
    /\ on_error_rethrows = TRUE
    /\ ticks = <<>>
    /\ index = 0
    /\ tick_count = 0
    /\ pf = NewPortfolio(0)
    /\ resting = {}
    /\ elog = <<>>
    /\ obs = NoObservation

StoreAtRest ==
    /\ bids_ = <<>>
    /\ asks_ = <<>>
    /\ bid_index_ = [id \in {} |-> 0]
    /\ asks_index_ = [id \in {} |-> 0]
    /\ historical_ledger_ = <<>>
    /\ slog = <<>>
    /\ xlog = <<>>

\* no portfolio manager has been constructed
ManagerAtRest ==
    /\ manager = <<>>
    /\ event_bus_ = <<>>
    /\ plog = <<>>
    /\ thrown = <<>>
    /\ prior = <<>>

(***************************************************************************)
(* SpecQueue: clients of one event_queue, as in tests/test_event_queue.cpp.*)
(***************************************************************************)
Order1 == order_event("BTCUSD", "1", 5, TRUE, 101)

Order2 == order_event("BTCUSD", "2", 10, FALSE, 99)

QEvents ==
    { market_event("BTCUSD", 100, 1),
      signal_event,
      Order1,
      Order2,
      fill_event("BTCUSD", "1", 1, 1, TRUE, 100),
      cancel_event(Order1, "FOK") }

InitQueue == QueueAtRest /\ EngineAtRest /\ StoreAtRest /\ ManagerAtRest

Push(ev) ==
    /\ Len(oplog) < MaxQueueOps
    /\ queue_' = event_queue_push(queue_, ev)
    /\ oplog' = Append(oplog, [op |-> "push", ev |-> ev, threw |-> FALSE])
    /\ UNCHANGED <<evars, svars, pvars>>

Pop ==
    /\ Len(oplog) < MaxQueueOps
    /\ LET r == event_queue_pop(queue_) IN
        /\ queue_' = r.q
        /\ oplog' = Append(oplog, [op |-> "pop", ev |-> r.ev, threw |-> r.threw])
    /\ UNCHANGED <<evars, svars, pvars>>

NextQueue ==
    \/ \E ev \in QEvents : Push(ev)
    \/ Pop

SpecQueue == InitQueue /\ [][NextQueue]_vars

\* the events of the calls of a log that satisfy test, in call order
RECURSIVE EventsOf(_, _, _)
EventsOf(log, op, threw) ==
    IF log = <<>> THEN <<>>
    ELSE IF Head(log).op = op /\ Head(log).threw = threw
         THEN <<Head(log).ev>> \o EventsOf(Tail(log), op, threw)
         ELSE EventsOf(Tail(log), op, threw)

Pushed(log) == EventsOf(log, "push", FALSE)

Popped(log) == EventsOf(log, "pop", FALSE)

IsPrefix(s, t) == Len(s) <= Len(t) /\ SubSeq(t, 1, Len(s)) = s

\* C1: the events returned by the successful pops are a prefix of the pushed
\* events, in push order, and what was pushed and not popped is still queued
\* in push order: nothing is lost, duplicated or reordered.
QueueFIFO ==
    /\ IsPrefix(Popped(oplog), Pushed(oplog))
    /\ Pushed(oplog) = Popped(oplog) \o queue_

\* C1 witness: two events of different kinds were popped, with a pop made
\* between two pushes.
QueueFIFOWitness ==
    /\ Len(Popped(oplog)) >= 2
    /\ Popped(oplog)[1].kind # Popped(oplog)[2].kind
    /\ \E i, j \in 1..Len(oplog) :
        i < j /\ oplog[i].op = "pop" /\ ~oplog[i].threw /\ oplog[j].op = "push"

\* number of events in the queue just before call i of the log
QueueLenBefore(log, i) ==
    Len(Pushed(SubSeq(log, 1, i - 1))) - Len(Popped(SubSeq(log, 1, i - 1)))

\* C2: a pop throws QueueEmpty exactly when the queue holds no element; the
\* queue is empty right after the throw, and a push followed by a pop then
\* returns the pushed event.
PopThrowsOnEmptyQueue ==
    /\ \A i \in 1..Len(oplog) :
        oplog[i].op = "pop" => (oplog[i].threw <=> QueueLenBefore(oplog, i) = 0)
    /\ (oplog # <<>> /\ oplog[Len(oplog)].threw) => queue_ = <<>>
    /\ \A i \in 1..(Len(oplog) - 2) :
        (oplog[i].threw /\ oplog[i + 1].op = "push" /\ oplog[i + 2].op = "pop")
            => (~oplog[i + 2].threw /\ oplog[i + 2].ev = oplog[i + 1].ev)

\* C2 witness: a pop threw, then an event was pushed and popped again.
PopThrowsOnEmptyQueueWitness ==
    \E i \in 1..(Len(oplog) - 2) :
        /\ oplog[i].op = "pop" /\ oplog[i].threw
        /\ oplog[i + 1].op = "push"
        /\ oplog[i + 2].op = "pop" /\ oplog[i + 2].ev = oplog[i + 1].ev


(***************************************************************************)
(* order_queue (orders/order_queue.hpp, src/orders/order_queue.cpp).       *)
(*                                                                         *)
(* A std::multiset is a sequence in iteration order; each element carries  *)
(* the node it lives in, which is what an iterator denotes.  A store value *)
(* S is the record of the five members of order_queue.                     *)
(***************************************************************************)
order_state(order, filled, avg) ==
    [order_ |-> order, filled_qty_ |-> filled, avg_fill_price_ |-> avg]

\* bids ordered by ascending price (the asks comparator used for the bids)
bid_cmp_ascending(lhs, rhs) ==
    IF lhs.order_.price_ # rhs.order_.price_
    THEN lhs.order_.price_ < rhs.order_.price_
    ELSE lhs.order_.timestamp_ < rhs.order_.timestamp_

bid_cmp(lhs, rhs) ==
    IF lhs.order_.price_ # rhs.order_.price_
    THEN lhs.order_.price_ > rhs.order_.price_
    ELSE lhs.order_.timestamp_ < rhs.order_.timestamp_

ask_cmp(lhs, rhs) ==
    IF lhs.order_.price_ # rhs.order_.price_
    THEN lhs.order_.price_ < rhs.order_.price_
    ELSE lhs.order_.timestamp_ < rhs.order_.timestamp_

EmptyIndex == [id \in {} |-> 0]

EmptyStore ==
    [bids |-> <<>>, asks |-> <<>>, bid_index |-> EmptyIndex,
     asks_index |-> EmptyIndex, ledger |-> <<>>]

\* the node a new element is allocated in: the first one not in use
FreeNode(c) ==
    CHOOSE n \in 0..Len(c) :
        /\ \A i \in 1..Len(c) : c[i].node # n
        /\ \A m \in 0..(n - 1) : \E i \in 1..Len(c) : c[i].node = m

\* std::multiset::insert: the element goes to the upper bound of its
\* equivalence range, that is before the first element it precedes
key_comp(is_bid, lhs, rhs) == IF is_bid THEN bid_cmp(lhs, rhs) ELSE ask_cmp(lhs, rhs)

UpperBound(c, is_bid, x) ==
    IF \E i \in 1..Len(c) : key_comp(is_bid, x, c[i].st)
    THEN CHOOSE i \in 1..Len(c) :
            /\ key_comp(is_bid, x, c[i].st)
            /\ \A j \in 1..(i - 1) : ~key_comp(is_bid, x, c[j].st)
    ELSE Len(c) + 1

multiset_insert(c, is_bid, x) ==
    LET at == UpperBound(c, is_bid, x)
        n == FreeNode(c)
    IN [c |-> SubSeq(c, 1, at - 1) \o <<[node |-> n, st |-> x]>>
                \o SubSeq(c, at, Len(c)),
        it |-> n]

\* std::multiset::erase(iterator): removes the one element in that node
multiset_erase(c, it) == SelectSeq(c, LAMBDA e : e.node # it)

\* dereferencing an iterator
Deref(c, it) == (CHOOSE i \in 1..Len(c) : c[i].node = it)

index_erase(idx, id) == [x \in (DOMAIN idx) \ {id} |-> idx[x]]

index_put(idx, id, it) ==
    [x \in (DOMAIN idx) \cup {id} |-> IF x = id THEN it ELSE idx[x]]

order_queue_emplace(S, state) ==
    LET id == state.order_.order_id_ IN
    IF state.order_.is_buy_
    THEN LET S1 == IF id \in DOMAIN S.bid_index
                   THEN [S EXCEPT !.bids = multiset_erase(S.bids, S.bid_index[id]),
                                  !.bid_index = index_erase(S.bid_index, id)]
                   ELSE S
             ins == multiset_insert(S1.bids, TRUE, state)
         IN [S1 EXCEPT !.bids = ins.c,
                       !.bid_index = index_put(S1.bid_index, id, ins.it)]
    ELSE LET S1 == IF id \in DOMAIN S.asks_index
                   THEN [S EXCEPT !.asks = multiset_erase(S.asks, S.asks_index[id]),
                                  !.asks_index = index_erase(S.asks_index, id)]
                   ELSE S
             ins == multiset_insert(S1.asks, FALSE, state)
         IN [S1 EXCEPT !.asks = ins.c,
                       !.asks_index = index_put(S1.asks_index, id, ins.it)]

\* get: the state the index finds for id, bids first; found = FALSE is nullptr
order_queue_get(S, id) ==
    IF id \in DOMAIN S.bid_index
    THEN [found |-> TRUE, st |-> S.bids[Deref(S.bids, S.bid_index[id])].st]
    ELSE IF id \in DOMAIN S.asks_index
    THEN [found |-> TRUE, st |-> S.asks[Deref(S.asks, S.asks_index[id])].st]
    ELSE [found |-> FALSE, st |-> order_state(BlankEvent, 0, 0)]

\* a ledger that grows without bound
ledger_emplace_unbounded(l, x) == Append(l, x)

\* revolving_recency_buffer::emplace: append, overwriting the oldest when full
ledger_emplace(l, x) ==
    IF Len(l) < LedgerCapacity THEN Append(l, x) ELSE Append(Tail(l), x)

\* inactive that copies into the ledger and drops the index entry but leaves
\* the element in the set
order_queue_inactive_keeps_element(S, id) ==
    IF id \in DOMAIN S.bid_index
    THEN [S EXCEPT !.ledger = ledger_emplace(S.ledger,
                                  S.bids[Deref(S.bids, S.bid_index[id])].st),
                   !.bid_index = index_erase(S.bid_index, id)]
    ELSE IF id \in DOMAIN S.asks_index
    THEN [S EXCEPT !.ledger = ledger_emplace(S.ledger,
                                  S.asks[Deref(S.asks, S.asks_index[id])].st),
                   !.asks_index = index_erase(S.asks_index, id)]
    ELSE S

order_queue_inactive(S, id) ==
    IF id \in DOMAIN S.bid_index
    THEN [S EXCEPT !.ledger = ledger_emplace(S.ledger,
                                  S.bids[Deref(S.bids, S.bid_index[id])].st),
                   !.bids = multiset_erase(S.bids, S.bid_index[id]),
                   !.bid_index = index_erase(S.bid_index, id)]
    ELSE IF id \in DOMAIN S.asks_index
    THEN [S EXCEPT !.ledger = ledger_emplace(S.ledger,
                                  S.asks[Deref(S.asks, S.asks_index[id])].st),
                   !.asks = multiset_erase(S.asks, S.asks_index[id]),
                   !.asks_index = index_erase(S.asks_index, id)]
    ELSE S


\* the order states of a container, in iteration order
States(c) == [i \in 1..Len(c) |-> c[i].st]

\* the elements a pruned loop over seq visits: up to and including the first
\* one the visitor answers false for; the visitor answers false exactly for
\* the states whose order id is in rejects
VisitPruned(seq, rejects) ==
    LET refused == {i \in 1..Len(seq) :
                       seq[i].order_.order_id_ \in rejects}
    IN IF refused = {} THEN seq
       ELSE SubSeq(seq, 1, CHOOSE i \in refused : \A j \in refused : i <= j)

\* for_each_pruned with one loop: a false from a bid ends the whole visit
for_each_pruned_single_loop(S, rejects) ==
    LET all == States(S.bids) \o States(S.asks) IN VisitPruned(all, rejects)

\* for_each_pruned: the sequence of states the visitor is called on
for_each_pruned(S, rejects) ==
    VisitPruned(States(S.bids), rejects) \o VisitPruned(States(S.asks), rejects)

(***************************************************************************)
(* SpecStore: clients of one order_queue calling emplace and inactive.     *)
(***************************************************************************)
StoreIds == {"1", "2"}

\* (price, timestamp) of the orders emplaced: two prices, and at one price
\* two timestamps
StoreKeys == {<<100, 1>>, <<100, 2>>, <<101, 1>>}

StoreOrder(id, is_buy, key) ==
    [order_event("BTCUSD", id, 10, is_buy, key[1]) EXCEPT !.timestamp_ = key[2]]

StoreStates ==
    { order_state(StoreOrder(id, b, k), 0, 0) :
        id \in StoreIds, b \in BOOLEAN, k \in StoreKeys }

Store ==
    [bids |-> bids_, asks |-> asks_, bid_index |-> bid_index_,
     asks_index |-> asks_index_, ledger |-> historical_ledger_]

\* what a client can observe of a store: both sides in order, and the ledger
View(S) == [bids |-> States(S.bids), asks |-> States(S.asks), ledger |-> S.ledger]

StoreBecomes(S) ==
    /\ bids_' = S.bids
    /\ asks_' = S.asks
    /\ bid_index_' = S.bid_index
    /\ asks_index_' = S.asks_index
    /\ historical_ledger_' = S.ledger

InitStore == QueueAtRest /\ EngineAtRest /\ StoreAtRest /\ ManagerAtRest

Emplace(state) ==
    /\ Len(slog) < MaxStoreOps
    /\ StoreBecomes(order_queue_emplace(Store, state))
    /\ slog' = Append(slog, [op |-> "emplace", id |-> state.order_.order_id_,
                             st |-> state, before |-> View(Store)])
    /\ UNCHANGED <<qvars, evars, xlog, pvars>>

Inactive(id) ==
    /\ Len(slog) < MaxStoreOps
    /\ StoreBecomes(order_queue_inactive(Store, id))
    /\ slog' = Append(slog, [op |-> "inactive", id |-> id,
                             st |-> order_state(BlankEvent, 0, 0),
                             before |-> View(Store)])
    /\ UNCHANGED <<qvars, evars, xlog, pvars>>

\* the visitors: each answers false for the states of one set of order ids
Visitors == SUBSET StoreIds

ForEachPruned(rejects) ==
    /\ Len(slog) < MaxStoreOps
    /\ slog' = Append(slog, [op |-> "for_each_pruned", id |-> "",
                             st |-> order_state(BlankEvent, 0, 0),
                             before |-> View(Store), rejects |-> rejects,
                             visited |-> for_each_pruned(Store, rejects)])
    /\ UNCHANGED <<qvars, evars, bids_, asks_, bid_index_, asks_index_,
                   historical_ledger_, xlog, pvars>>

NextStore ==
    \/ \E state \in StoreStates : Emplace(state)
    \/ \E id \in StoreIds : Inactive(id)
    \/ \E rejects \in Visitors : ForEachPruned(rejects)

SpecStore == InitStore /\ [][NextStore]_vars

Range(f) == {f[i] : i \in DOMAIN f}

\* the live entries of a view: the states of both sides
Live(v) == Range(v.bids) \cup Range(v.asks)

LiveCount(v) == Len(v.bids) + Len(v.asks)

\* number of live entries of a view carrying order id
CountId(v, id) ==
    Cardinality({i \in 1..Len(v.bids) : v.bids[i].order_.order_id_ = id})
    + Cardinality({i \in 1..Len(v.asks) : v.asks[i].order_.order_id_ = id})

\* price-time priority of the bids, written out: a goes before b
BidBefore(a, b) ==
    \/ a.order_.price_ > b.order_.price_
    \/ a.order_.price_ = b.order_.price_ /\ a.order_.timestamp_ < b.order_.timestamp_

SameKey(a, b) ==
    a.order_.price_ = b.order_.price_ /\ a.order_.timestamp_ = b.order_.timestamp_

EmplaceReplacesById ==
    /\ \A id \in StoreIds : CountId(View(Store), id) <= 1
    /\ (slog # <<>> /\ slog[Len(slog)].op = "emplace") =>
        /\ CountId(View(Store), slog[Len(slog)].id) = 1
        /\ slog[Len(slog)].st \in Live(View(Store))
    /\ (Len(slog) >= 2 /\ slog[Len(slog)].op = "emplace"
            /\ slog[Len(slog) - 1].op = "emplace"
            /\ slog[Len(slog)].st = slog[Len(slog) - 1].st) =>
        View(Store) = slog[Len(slog)].before

\* the last two calls were emplace(s); inactive(s.id)
RoundTripDone ==
    /\ Len(slog) >= 2
    /\ slog[Len(slog) - 1].op = "emplace"
    /\ slog[Len(slog)].op = "inactive"
    /\ slog[Len(slog)].id = slog[Len(slog) - 1].id

\* ledger now is ledger then with entry x appended (the oldest overwritten
\* when the ledger was full)
Appended(then, now, x) ==
    IF Len(then) < LedgerCapacity
    THEN now = then \o <<x>>
    ELSE now = Tail(then) \o <<x>>

\* C10 as stated: after emplace(s); inactive(s.id) the live set has the
\* content it had before the emplace and the ledger has gained one entry,
\* for every store state and every s.
RoundTripRestoresLive ==
    RoundTripDone =>
        LET was == slog[Len(slog) - 1].before IN
        /\ Live(View(Store)) = Live(was)
        /\ LiveCount(View(Store)) = LiveCount(was)
        /\ \E x \in StoreStates : Appended(was.ledger, historical_ledger_, x)

\* C10 amended: the same, for the store states in which no live entry has
\* the id of s; the entry the ledger gains is the copy of s.
RoundTripRestoresLiveFreshId ==
    (RoundTripDone /\ CountId(slog[Len(slog) - 1].before, slog[Len(slog)].id) = 0) =>
        LET was == slog[Len(slog) - 1].before IN
        /\ View(Store).bids = was.bids
        /\ View(Store).asks = was.asks
        /\ Appended(was.ledger, historical_ledger_, slog[Len(slog) - 1].st)

\* C10 witness: a round trip with a fresh id on a store that holds a live
\* order on either side.
RoundTripRestoresLiveFreshIdWitness ==
    /\ RoundTripDone
    /\ CountId(slog[Len(slog) - 1].before, slog[Len(slog)].id) = 0
    /\ LiveCount(slog[Len(slog) - 1].before) > 0
    /\ Len(historical_ledger_) > 0


LastCall == slog[Len(slog)]

\* the live state get(id) finds in view v: a bid before an ask
FirstWithId(v, id) ==
    LET inb == {i \in 1..Len(v.bids) : v.bids[i].order_.order_id_ = id}
        ina == {i \in 1..Len(v.asks) : v.asks[i].order_.order_id_ = id}
    IN IF inb # {} THEN v.bids[CHOOSE i \in inb : TRUE]
       ELSE v.asks[CHOOSE i \in ina : TRUE]

\* C11: after inactive(id) on a live id no live entry has that id (get(id)
\* is null), the live set is one entry smaller and the ledger has gained one
\* copy of a state with that id; after inactive(id) on an id that is not live
\* both sides and the ledger are what they were.
InactiveRemovesLive ==
    (slog # <<>> /\ LastCall.op = "inactive") =>
        IF CountId(LastCall.before, LastCall.id) > 0
        THEN /\ CountId(View(Store), LastCall.id) = 0
             /\ ~order_queue_get(Store, LastCall.id).found
             /\ LiveCount(View(Store)) = LiveCount(LastCall.before) - 1
             /\ Appended(LastCall.before.ledger, historical_ledger_,
                         FirstWithId(LastCall.before, LastCall.id))
        ELSE View(Store) = LastCall.before

\* the first k elements of seq are what a pruned loop visits: none before
\* the k-th is refused, and the k-th is refused unless seq ended
PrunedAt(seq, k, rejects) ==
    /\ \A i \in 1..(k - 1) : seq[i].order_.order_id_ \notin rejects
    /\ \/ k = Len(seq)
       \/ k >= 1 /\ seq[k].order_.order_id_ \in rejects

\* C12: for_each_pruned calls the visitor on the bids in order up to and
\* including the first refused bid, then on the asks in order up to and
\* including the first refused ask, whatever happened on the bid side.
ForEachPrunedVisits ==
    (slog # <<>> /\ LastCall.op = "for_each_pruned") =>
        \E kb \in 0..Len(LastCall.before.bids), ka \in 0..Len(LastCall.before.asks) :
            /\ PrunedAt(LastCall.before.bids, kb, LastCall.rejects)
            /\ PrunedAt(LastCall.before.asks, ka, LastCall.rejects)
            /\ LastCall.visited = SubSeq(LastCall.before.bids, 1, kb)
                                   \o SubSeq(LastCall.before.asks, 1, ka)

\* C12 witness: two bids and an ask, the visitor refuses the first bid: the
\* visit is that bid and then the ask.
ForEachPrunedVisitsWitness ==
    /\ slog # <<>>
    /\ LastCall.op = "for_each_pruned"
    /\ Len(LastCall.before.bids) = 2
    /\ Len(LastCall.before.asks) = 1
    /\ LastCall.before.bids[1].order_.order_id_ \in LastCall.rejects
    /\ LastCall.before.asks[1].order_.order_id_ \notin LastCall.rejects
    /\ LastCall.visited = <<LastCall.before.bids[1], LastCall.before.asks[1]>>

\* the states moved to the ledger by the calls of log, oldest first
RECURSIVE Inactivated(_)
Inactivated(log) ==
    IF log = <<>> THEN <<>>
    ELSE LET c == log[Len(log)]
             rest == Inactivated(SubSeq(log, 1, Len(log) - 1))
         IN IF c.op = "inactive" /\ CountId(c.before, c.id) > 0
            THEN Append(rest, FirstWithId(c.before, c.id))
            ELSE rest

LastOf(seq, n) == SubSeq(seq, Len(seq) - n + 1, Len(seq))

InitialCash == 1000

commission_rate_ == 0

portfolio_on_market(p, symbol, price) == [p EXCEPT !.market_price = price]

portfolio_on_fill(p, fill) ==
    LET signed_qty == IF fill.is_buy_ THEN fill.filled_qty_ ELSE -fill.filled_qty_
        trade_value == fill.price_ * fill.filled_qty_
        commission == trade_value * commission_rate_
    IN [p EXCEPT !.cash_ = IF fill.is_buy_
                           THEN (@ - commission) - trade_value
                           ELSE (@ - commission) + trade_value,
                 !.quantity = @ + signed_qty,
                 !.trade_log_ = Append(@, fill)]

(***************************************************************************)
(* The external collaborators: what a strategy and a concrete executor may *)
(* do in one handler call.  An outcome is the events the call pushes, in   *)
(* order, and whether the call ends by throwing.                           *)
(***************************************************************************)
OrderIdNames == <<"1", "2", "3", "4", "5", "6", "7", "8", "9">>

NewOrder(n, is_buy, price) == order_event("BTCUSD", OrderIdNames[n], 2, is_buy, price)

FillOf(order, qty) ==
    fill_event(order.symbol_, order.order_id_, qty, order.quantity_,
               order.is_buy_, order.price_)

Outcome(push, throws, rest) == [push |-> push, throws |-> throws, resting |-> rest]

NoOutcome == Outcome(<<>>, FALSE, {})

\* strategy.on_market: nothing, a signal, an order, or both; or it throws
StrategyOnMarket(ev, n) ==
    { Outcome(<<>>, FALSE, {}), Outcome(<<>>, TRUE, {}),
      Outcome(<<signal_event>>, FALSE, {}),
      Outcome(<<signal_event, NewOrder(n + 1, TRUE, ev.price_)>>, FALSE, {}) }
    \cup { Outcome(<<NewOrder(n + 1, b, ev.price_)>>, FALSE, {}) : b \in BOOLEAN }

\* strategy.on_signal: nothing or an order; or it throws
StrategyOnSignal(ev, n) ==
    { Outcome(<<>>, FALSE, {}), Outcome(<<>>, TRUE, {}) }
    \cup { Outcome(<<NewOrder(n + 1, b, 100)>>, FALSE, {}) : b \in BOOLEAN }

\* exec.on_order: lets the order rest, fills it (in part), cancels it, fills a
\* part and cancels the rest; or it throws
ExecOnOrder(order, rest) ==
    { Outcome(<<>>, FALSE, rest \cup {order}),
      Outcome(<<>>, TRUE, rest),
      Outcome(<<FillOf(order, order.quantity_)>>, FALSE, rest),
      Outcome(<<FillOf(order, 1)>>, FALSE, rest \cup {order}),
      Outcome(<<cancel_event(order, "FOK")>>, FALSE, rest),
      Outcome(<<FillOf(order, 1), cancel_event(order, "IOC")>>, FALSE, rest) }

\* exec.on_market: fills or cancels one resting order, or does nothing; or throws
ExecOnMarket(ev, rest) ==
    { Outcome(<<>>, FALSE, rest), Outcome(<<>>, TRUE, rest) }
    \cup { Outcome(<<FillOf(o, o.quantity_)>>, FALSE, rest \ {o}) : o \in rest }
    \cup { Outcome(<<cancel_event(o, "expired")>>, FALSE, rest \ {o}) : o \in rest }

ExecChoices(ev, rest) ==
    CASE ev.kind = "Market" -> ExecOnMarket(ev, rest)
      [] ev.kind = "Order" -> ExecOnOrder(ev, rest)
      [] OTHER -> {NoOutcome}

StrategyChoices(ev, n) ==
    CASE ev.kind = "Market" -> StrategyOnMarket(ev, n)
      [] ev.kind = "Signal" -> StrategyOnSignal(ev, n)
      [] OTHER -> {NoOutcome}


(***************************************************************************)
(* engine_base::handle_event.  A world w carries what one dispatch reads   *)
(* and writes: the portfolio, the queue, the executor's resting orders,    *)
(* the calls made so far, whether an exception is propagating, and the     *)
(* observer record.                                                        *)
(***************************************************************************)
World(tick) ==
    [pf |-> pf, queue |-> queue_, resting |-> resting, calls |-> <<>>,
     threw |-> FALSE, obs |-> obs, tick |-> tick]

Tag(evs, tick, src) ==
    [i \in 1..Len(evs) |-> [evs[i] EXCEPT !.tick = tick, !.src = src]]

OfKind(evs, kind) == SelectSeq(evs, LAMBDA e : e.kind = kind)

CallRecord(w, name, ev) ==
    [handler |-> name, kind |-> ev.kind, pf_price |-> w.pf.market_price]

\* a call of a strategy or executor handler: it pushes out.push and then
\* returns or throws; no call is made while an exception propagates
call_handler(w, name, ev, out) ==
    IF w.threw THEN w
    ELSE [w EXCEPT !.calls = Append(@, CallRecord(w, name, ev)),
                   !.queue = @ \o Tag(out.push, w.tick, name),
                   !.threw = out.throws,
                   !.obs.ncalls = @ + 1,
                   !.obs.npushed = @ + Len(out.push),
                   !.obs.norders = @ + Len(OfKind(out.push, "Order")),
                   !.obs.fills = @ \o Tag(OfKind(out.push, "Fill"), w.tick, name)]

call_exec(w, name, ev, out) ==
    IF w.threw THEN w
    ELSE [call_handler(w, name, ev, out) EXCEPT !.resting = out.resting]

\* a call of a portfolio handler (noexcept), leaving the portfolio as newpf
call_portfolio(w, name, ev, newpf) ==
    IF w.threw THEN w
    ELSE [w EXCEPT !.calls = Append(@, CallRecord(w, name, ev)),
                   !.pf = newpf,
                   !.obs.ncalls = @ + 1]

\* the earlier dispatch: the strategy reacts before the portfolio is marked
handle_event_strategy_first(w, ev, xo, so) ==
    CASE ev.kind = "Market" ->
            LET w1 == call_handler(w, "strategy.on_market", ev, so)
                w2 == call_exec(w1, "exec.on_market", ev, xo)
            IN call_portfolio(w2, "portfolio.on_market", ev,
                              portfolio_on_market(w2.pf, ev.symbol_, ev.price_))
      [] ev.kind = "Signal" -> call_handler(w, "strategy.on_signal", ev, so)
      [] ev.kind = "Order" -> call_exec(w, "exec.on_order", ev, xo)
      [] ev.kind = "Fill" ->
            call_portfolio(w, "portfolio.on_fill", ev, portfolio_on_fill(w.pf, ev))
      [] OTHER -> w

\* a dispatch that hands Order events to the strategy's signal handler
handle_event_order_to_strategy(w, ev, xo, so) ==
    CASE ev.kind = "Market" ->
            LET w1 == call_portfolio(w, "portfolio.on_market", ev,
                                     portfolio_on_market(w.pf, ev.symbol_, ev.price_))
                w2 == call_exec(w1, "exec.on_market", ev, xo)
            IN call_handler(w2, "strategy.on_market", ev, so)
      [] ev.kind = "Signal" -> call_handler(w, "strategy.on_signal", ev, so)
      [] ev.kind = "Order" -> call_handler(w, "strategy.on_signal", ev, NoOutcome)
      [] ev.kind = "Fill" ->
            call_portfolio(w, "portfolio.on_fill", ev, portfolio_on_fill(w.pf, ev))
      [] OTHER -> w

\* std::visit over the five alternatives; the visitor has a branch for
\* market_event, signal_event, order_event and fill_event, and none for
\* cancel_event
handle_event(w, ev, xo, so) ==
    CASE ev.kind = "Market" ->
            LET w1 == call_portfolio(w, "portfolio.on_market", ev,
                                     portfolio_on_market(w.pf, ev.symbol_, ev.price_))
                w2 == call_exec(w1, "exec.on_market", ev, xo)
            IN call_handler(w2, "strategy.on_market", ev, so)
      [] ev.kind = "Signal" -> call_handler(w, "strategy.on_signal", ev, so)
      [] ev.kind = "Order" -> call_exec(w, "exec.on_order", ev, xo)
      [] ev.kind = "Fill" ->
            call_portfolio(w, "portfolio.on_fill", ev, portfolio_on_fill(w.pf, ev))
      [] OTHER -> w

(***************************************************************************)
(* engine_base::run, one action per step of the dispatcher thread.         *)
(*   pc: "loop"    the while (!self.should_stop()) test                    *)
(*       "pause"   the while (is_paused()) test                            *)
(*       "yield"   after std::this_thread::yield(), before should_stop()   *)
(*       "poll"    poll_streamer()                                         *)
(*       "drain"   the while (!queue_.empty()) test                        *)
(*       "metrics" on_loop_metrics                                         *)
(*       "returned" run() has returned, "thrown" an exception left run()   *)
(***************************************************************************)
tick_data(symbol, price, ts) == [symbol |-> symbol, price |-> price, timestamp_ms |-> ts]

\* the source holds n ticks, at rising prices
TicksOf(n) == [i \in 1..n |-> tick_data("BTCUSD", 99 + i, i)]

InitEngine ==
    /\ QueueAtRest
    /\ StoreAtRest
    /\ ManagerAtRest
    /\ pc = "loop"
    /\ paused_ \in BOOLEAN       \* the constructor leaves paused_ uninitialized
    /\ stop_ = FALSE
    /\ on_error_rethrows \in BOOLEAN
    /\ \E n \in 0..MaxTicks : ticks = TicksOf(n)
    /\ index = 0
    /\ tick_count = 0
    /\ pf = NewPortfolio(InitialCash)
    /\ resting = {}
    /\ elog = <<>>
    /\ obs = NoObservation

Running == pc \notin {"not_running", "returned", "thrown"}

\* a primary dispatch whose exceptions never leave run()
DispatchSwallows(ev, tick) ==
    \E xo \in ExecChoices(ev, resting), so \in StrategyChoices(ev, obs.norders) :
        /\ obs.npushed + Len(xo.push) + Len(so.push) <= MaxEvents
        /\ LET w == handle_event(World(tick), ev, xo, so) IN
            /\ pf' = w.pf
            /\ resting' = w.resting
            /\ elog' = w.calls
            /\ obs' = [w.obs EXCEPT !.threw = @ \/ w.threw,
                                    !.handled[ev.kind] = @ + 1,
                                    !.last = ev]
            /\ pc' = IF w.threw THEN "metrics" ELSE "drain"
            /\ queue_' = w.queue

\* the dispatcher dispatches ev while handling tick number tick; an exception
\* goes to on_error, which rethrows it out of run() or returns to the loop
Dispatch(ev, tick) ==
    \E xo \in ExecChoices(ev, resting), so \in StrategyChoices(ev, obs.norders) :
        /\ obs.npushed + Len(xo.push) + Len(so.push) <= MaxEvents
        /\ LET w == handle_event(World(tick), ev, xo, so) IN
            /\ pf' = w.pf
            /\ resting' = w.resting
            /\ elog' = w.calls
            /\ obs' = [w.obs EXCEPT !.threw = @ \/ w.threw,
                                    !.handled[ev.kind] = @ + 1,
                                    !.last = ev]
            /\ pc' = IF w.threw
                     THEN (IF on_error_rethrows THEN "thrown" ELSE "metrics")
                     ELSE "drain"
            /\ queue_' = w.queue

LoopTest ==
    /\ pc = "loop"
    /\ pc' = IF stop_ THEN "returned" ELSE "pause"
    /\ UNCHANGED <<queue_, paused_, stop_, on_error_rethrows, ticks, index,
                   tick_count, pf, resting, elog, obs, oplog, svars, pvars>>

PauseTest ==
    /\ pc = "pause"
    /\ pc' = IF paused_ THEN "yield" ELSE "poll"
    /\ obs' = [obs EXCEPT !.paused_seen = @ \/ paused_, !.pausing = paused_]
    /\ UNCHANGED <<queue_, paused_, stop_, on_error_rethrows, ticks, index,
                   tick_count, pf, resting, elog, oplog, svars, pvars>>

\* a pause loop that does not look at should_stop
YieldIgnoresStop ==
    /\ pc = "yield"
    /\ pc' = "pause"
    /\ UNCHANGED <<queue_, paused_, stop_, on_error_rethrows, ticks, index,
                   tick_count, pf, resting, elog, obs, oplog, svars, pvars>>

Yield ==
    /\ pc = "yield"
    /\ pc' = IF stop_ THEN "returned" ELSE "pause"
    /\ UNCHANGED <<queue_, paused_, stop_, on_error_rethrows, ticks, index,
                   tick_count, pf, resting, elog, obs, oplog, svars, pvars>>

PollTick ==
    /\ pc = "poll"
    /\ index < Len(ticks)
    /\ index' = index + 1
    /\ tick_count' = tick_count + 1
    /\ Dispatch(market_event(ticks[index + 1].symbol, ticks[index + 1].price,
                             ticks[index + 1].timestamp_ms), tick_count + 1)
    /\ UNCHANGED <<paused_, stop_, on_error_rethrows, ticks, oplog, svars, pvars>>

\* no tick: handle_no_event decides whether the loop goes on
PollNoEvent ==
    /\ pc = "poll"
    /\ index >= Len(ticks)
    /\ \E continue \in BOOLEAN :
        /\ pc' = IF continue THEN "drain" ELSE "returned"
        /\ obs' = [obs EXCEPT !.idled = @ \/ continue]
    /\ UNCHANGED <<queue_, paused_, stop_, on_error_rethrows, ticks, index,
                   tick_count, pf, resting, elog, oplog, svars, pvars>>

\* a drain that dispatches one queued event per loop iteration
DrainOnce ==
    /\ pc = "drain"
    /\ IF empty(queue_)
       THEN /\ pc' = "metrics"
            /\ UNCHANGED <<queue_, pf, resting, elog, obs>>
       ELSE \E xo \in ExecChoices(Head(queue_), resting),
               so \in StrategyChoices(Head(queue_), obs.norders) :
            /\ obs.npushed + Len(xo.push) + Len(so.push) <= MaxEvents
            /\ LET w == handle_event([World(tick_count) EXCEPT !.queue = Tail(queue_)],
                                     Head(queue_), xo, so) IN
                /\ pf' = w.pf
                /\ resting' = w.resting
                /\ elog' = w.calls
                /\ obs' = [w.obs EXCEPT !.threw = @ \/ w.threw,
                                        !.handled[Head(queue_).kind] = @ + 1,
                                        !.last = Head(queue_)]
                /\ queue_' = w.queue
                /\ pc' = IF w.threw /\ on_error_rethrows THEN "thrown" ELSE "metrics"
    /\ UNCHANGED <<paused_, stop_, on_error_rethrows, ticks, index, tick_count,
                   oplog, svars, pvars>>

Drain ==
    /\ pc = "drain"
    /\ IF empty(queue_)
       THEN /\ pc' = "metrics"
            /\ UNCHANGED <<queue_, pf, resting, elog, obs>>
       ELSE LET r == event_queue_pop(queue_) IN
            \E xo \in ExecChoices(r.ev, resting),
               so \in StrategyChoices(r.ev, obs.norders) :
            /\ obs.npushed + Len(xo.push) + Len(so.push) <= MaxEvents
            /\ LET w == handle_event([World(tick_count) EXCEPT !.queue = r.q],
                                     r.ev, xo, so) IN
                /\ pf' = w.pf
                /\ resting' = w.resting
                /\ elog' = w.calls
                /\ obs' = [w.obs EXCEPT !.threw = @ \/ w.threw,
                                        !.handled[r.ev.kind] = @ + 1,
                                        !.last = r.ev]
                /\ queue_' = w.queue
                /\ pc' = IF w.threw
                         THEN (IF on_error_rethrows THEN "thrown" ELSE "metrics")
                         ELSE "drain"
    /\ UNCHANGED <<paused_, stop_, on_error_rethrows, ticks, index, tick_count,
                   oplog, svars, pvars>>

\* a loop that runs its body once
MetricsReturns ==
    /\ pc = "metrics"
    /\ pc' = "returned"
    /\ UNCHANGED <<queue_, paused_, stop_, on_error_rethrows, ticks, index,
                   tick_count, pf, resting, elog, obs, oplog, svars, pvars>>

Metrics ==
    /\ pc = "metrics"
    /\ pc' = "loop"
    /\ UNCHANGED <<queue_, paused_, stop_, on_error_rethrows, ticks, index,
                   tick_count, pf, resting, elog, obs, oplog, svars, pvars>>

\* the steps of the dispatcher thread
RunStep == LoopTest \/ PauseTest \/ Yield \/ PollTick \/ PollNoEvent \/ Drain \/ Metrics

\* the control thread: pause(), resume(), and whatever makes should_stop true
Pause ==
    /\ Running /\ ~paused_
    /\ paused_' = TRUE
    /\ UNCHANGED <<queue_, pc, stop_, on_error_rethrows, ticks, index,
                   tick_count, pf, resting, elog, obs, oplog, svars, pvars>>

Resume ==
    /\ Running /\ paused_
    /\ paused_' = FALSE
    /\ UNCHANGED <<queue_, pc, stop_, on_error_rethrows, ticks, index,
                   tick_count, pf, resting, elog, obs, oplog, svars, pvars>>

\* the observer notes a stop that arrives while the dispatcher is in the pause
\* loop with the flag set
RequestStop ==
    /\ Running /\ ~stop_
    /\ stop_' = TRUE
    /\ obs' = [obs EXCEPT !.stop_in_pause =
                              paused_ /\ obs.pausing /\ pc \in {"pause", "yield"}]
    /\ UNCHANGED <<queue_, pc, paused_, on_error_rethrows, ticks, index,
                   tick_count, pf, resting, elog, oplog, svars, pvars>>

NextEngine ==
    \/ LoopTest
    \/ PauseTest
    \/ Yield
    \/ PollTick
    \/ PollNoEvent
    \/ Drain
    \/ Metrics
    \/ Pause
    \/ Resume
    \/ RequestStop

SpecEngine == InitEngine /\ [][NextEngine]_vars

\* the dispatcher thread is scheduled: a step it can take is eventually taken
SpecEngineFair == SpecEngine /\ WF_vars(RunStep)


(***************************************************************************)
(* Properties of the dispatcher.                                           *)
(***************************************************************************)
HandlerNames(calls) == [i \in 1..Len(calls) |-> calls[i].handler]

\* the event dispatched last was of kind k
LastKind(k) == obs.handled[k] > 0 /\ obs.last.kind = k

MarketHandlers == <<"portfolio.on_market", "exec.on_market", "strategy.on_market">>

RECURSIVE SignedQty(_)
SignedQty(fills) ==
    IF fills = <<>> THEN 0
    ELSE (IF Head(fills).is_buy_ THEN Head(fills).filled_qty_
          ELSE -Head(fills).filled_qty_) + SignedQty(Tail(fills))

RECURSIVE SignedValue(_)
SignedValue(fills) ==
    IF fills = <<>> THEN 0
    ELSE (IF Head(fills).is_buy_ THEN Head(fills).price_ * Head(fills).filled_qty_
          ELSE -(Head(fills).price_ * Head(fills).filled_qty_))
         + SignedValue(Tail(fills))

\* C3: while no handler has thrown, the queue is empty whenever the source is
\* polled, every queued event was pushed while handling the current tick, and
\* at a poll every fill pushed so far has been applied to the portfolio, in
\* the order pushed (so before the mark of the next tick).
QueueDrainedBeforePoll ==
    ~obs.threw =>
        /\ pc = "poll" => queue_ = <<>> /\ pf.trade_log_ = obs.fills
        /\ \A i \in 1..Len(queue_) : queue_[i].tick = tick_count

QueueDrainedBeforePollWitness ==
    /\ pc = "poll"
    /\ ~obs.threw
    /\ tick_count = 1
    /\ index < Len(ticks)
    /\ Len(pf.trade_log_) >= 1
    /\ pf.trade_log_[1].tick = 1

\* C4: the calls made for a Market event are, in this order, the portfolio's
\* on_market, the executor's on_market, the strategy's on_market (cut short
\* only by a throw); the strategy is called with the portfolio already at the
\* event's price; and in the queue no event pushed by the strategy's on_market
\* is ahead of one pushed by the executor's on_market for the same tick.
MarketHandlerOrder ==
    /\ LastKind("Market") =>
        /\ IsPrefix(HandlerNames(elog), MarketHandlers)
        /\ ~obs.threw => HandlerNames(elog) = MarketHandlers
        /\ \A i \in 1..Len(elog) :
              elog[i].handler = "strategy.on_market"
                  => elog[i].pf_price = obs.last.price_
    /\ \A i, j \in 1..Len(queue_) :
          (i < j /\ queue_[i].tick = queue_[j].tick)
              => ~(queue_[i].src = "strategy.on_market"
                   /\ queue_[j].src = "exec.on_market")

MarketHandlerOrderWitness ==
    /\ LastKind("Market")
    /\ HandlerNames(elog) = MarketHandlers
    /\ Len(queue_) = 2
    /\ queue_[1].src = "exec.on_market"
    /\ queue_[2].src = "strategy.on_market"
    /\ queue_[1].tick = queue_[2].tick
    /\ pf.market_price = obs.last.price_

\* C5: a Signal event calls only strategy.on_signal, an Order event only
\* exec.on_order, a Fill event only portfolio.on_fill; and when run() has
\* returned without a throw, position and cash differ from their initial
\* values by exactly the fills that were pushed.
RoutingByKind ==
    /\ LastKind("Signal") => HandlerNames(elog) = <<"strategy.on_signal">>
    /\ LastKind("Order") => HandlerNames(elog) = <<"exec.on_order">>
    /\ LastKind("Fill") => HandlerNames(elog) = <<"portfolio.on_fill">>
    /\ (pc = "returned" /\ ~obs.threw) =>
        /\ pf.trade_log_ = obs.fills
        /\ pf.quantity = SignedQty(obs.fills)
        /\ pf.cash_ = InitialCash - SignedValue(obs.fills)

RoutingByKindWitness ==
    /\ pc = "returned"
    /\ ~obs.threw
    /\ Len(ticks) = 1
    /\ obs.handled["Signal"] = 1
    /\ obs.handled["Order"] = 1
    /\ obs.handled["Fill"] = 1
    /\ Len(obs.fills) = 1
    /\ obs.fills[1].src = "exec.on_order"
    /\ pf.quantity = 2
    /\ pf.cash_ = InitialCash - 2 * 100

\* C6: every Cancel event the dispatcher has popped is recorded by the
\* portfolio: the cancel count and the number of logged ids equal the number
\* of Cancel events dispatched.
CancelsRecorded ==
    /\ pf.cancel_count_ = obs.handled["Cancel"]
    /\ Len(pf.cancelled_order_ids_) = obs.handled["Cancel"]

\* C7 as stated: with no throw, no pause and handle_no_event false, run()
\* returns only after every tick, with the queue empty; an empty source means
\* no handler call and an unchanged portfolio; and run() eventually returns.
RunTerminates ==
    /\ []((pc = "returned" /\ ~obs.threw /\ ~obs.idled /\ ~obs.paused_seen)
            => (index = Len(ticks) /\ queue_ = <<>>))
    /\ [](ticks = <<>> => (obs.ncalls = 0 /\ pf = NewPortfolio(InitialCash)))
    /\ ([]~paused_ /\ []~obs.idled /\ []~obs.threw) => <>(pc = "returned")

\* C7, with should_stop staying false added to the conditions of "returns
\* only after every tick was dispatched".
RunTerminatesUnlessStopped ==
    /\ []((pc = "returned" /\ ~obs.threw /\ ~obs.idled /\ ~obs.paused_seen
             /\ ~stop_)
            => (index = Len(ticks) /\ queue_ = <<>>))
    /\ []((pc = "returned" /\ ~obs.threw) => queue_ = <<>>)
    /\ [](ticks = <<>> => (obs.ncalls = 0 /\ pf = NewPortfolio(InitialCash)))
    /\ ([]~paused_ /\ []~obs.idled /\ []~obs.threw) => <>(pc = "returned")

RunTerminatesUnlessStoppedWitness ==
    /\ pc = "returned"
    /\ ~obs.threw /\ ~obs.idled /\ ~obs.paused_seen /\ ~stop_
    /\ Len(ticks) >= 2
    /\ index = Len(ticks)
    /\ obs.handled["Market"] = Len(ticks)
    /\ Len(pf.trade_log_) >= 1
    /\ queue_ = <<>>

(***************************************************************************)
(* double: IEEE-754 binary64 values that are zero or positive and finite,  *)
(* with round-to-nearest-even.  A value is m * 2^e with m a natural number *)
(* held as limbs (least significant first) and, for m # 0, m odd.          *)
(***************************************************************************)
LimbBits == 15

LimbBase == 32768

MantissaBits == 53

RECURSIVE Pow2(_)
Pow2(n) == IF n = 0 THEN 1 ELSE 2 * Pow2(n - 1)

RECURSIVE BNorm(_)
BNorm(a) ==
    IF a = <<>> THEN <<>>
    ELSE IF a[Len(a)] = 0 THEN BNorm(SubSeq(a, 1, Len(a) - 1)) ELSE a

RECURSIVE BFromInt(_)
BFromInt(n) ==
    IF n = 0 THEN <<>> ELSE <<n % LimbBase>> \o BFromInt(n \div LimbBase)

RECURSIVE BAddC(_, _, _)
BAddC(a, b, carry) ==
    IF a = <<>> /\ b = <<>> THEN (IF carry = 0 THEN <<>> ELSE <<carry>>)
    ELSE LET x == IF a = <<>> THEN 0 ELSE Head(a)
             y == IF b = <<>> THEN 0 ELSE Head(b)
             s == x + y + carry
         IN <<s % LimbBase>>
            \o BAddC(IF a = <<>> THEN <<>> ELSE Tail(a),
                     IF b = <<>> THEN <<>> ELSE Tail(b), s \div LimbBase)

BAdd(a, b) == BAddC(a, b, 0)

\* a - b for a >= b
RECURSIVE BSubB(_, _, _)
BSubB(a, b, borrow) ==
    IF a = <<>> THEN <<>>
    ELSE LET y == IF b = <<>> THEN 0 ELSE Head(b)
             d == Head(a) - y - borrow
         IN <<IF d < 0 THEN d + LimbBase ELSE d>>
            \o BSubB(Tail(a), IF b = <<>> THEN <<>> ELSE Tail(b),
                     IF d < 0 THEN 1 ELSE 0)

BSub(a, b) == BNorm(BSubB(a, b, 0))

\* a <= b, for a and b without leading zero limbs
RECURSIVE BLeq(_, _)
BLeq(a, b) ==
    IF Len(a) # Len(b) THEN Len(a) < Len(b)
    ELSE IF a = <<>> THEN TRUE
    ELSE IF a[Len(a)] # b[Len(b)] THEN a[Len(a)] < b[Len(b)]
    ELSE BLeq(SubSeq(a, 1, Len(a) - 1), SubSeq(b, 1, Len(b) - 1))

\* a * k + carry for k < LimbBase
RECURSIVE BMulSmall(_, _, _)
BMulSmall(a, k, carry) ==
    IF a = <<>> THEN (IF carry = 0 THEN <<>> ELSE <<carry>>)
    ELSE LET s == Head(a) * k + carry
         IN <<s % LimbBase>> \o BMulSmall(Tail(a), k, s \div LimbBase)

RECURSIVE BMul(_, _)
BMul(a, b) ==
    IF a = <<>> \/ b = <<>> THEN <<>>
    ELSE BNorm(BAdd(BMulSmall(a, Head(b), 0), <<0>> \o BMul(a, Tail(b))))

\* quotient and remainder of a by k, 0 < k < LimbBase
RECURSIVE BDivSmall(_, _)
BDivSmall(a, k) ==
    IF a = <<>> THEN [q |-> <<>>, r |-> 0]
    ELSE LET hi == BDivSmall(Tail(a), k)
             cur == hi.r * LimbBase + Head(a)
         IN [q |-> BNorm(<<cur \div k>> \o hi.q), r |-> cur % k]

RECURSIVE BitLenInt(_)
BitLenInt(n) == IF n = 0 THEN 0 ELSE 1 + BitLenInt(n \div 2)

BBitLen(a) ==
    IF a = <<>> THEN 0 ELSE (Len(a) - 1) * LimbBits + BitLenInt(a[Len(a)])

BShl(a, n) ==
    IF a = <<>> THEN <<>>
    ELSE [i \in 1..(n \div LimbBits) |-> 0] \o BMulSmall(a, Pow2(n % LimbBits), 0)

\* a shifted right by n bits, and whether a nonzero bit was shifted out
BShr(a, n) ==
    LET limbs == IF n \div LimbBits < Len(a) THEN n \div LimbBits ELSE Len(a)
        d == BDivSmall(SubSeq(a, limbs + 1, Len(a)), Pow2(n % LimbBits))
    IN [q |-> d.q,
        sticky |-> d.r # 0 \/ \E i \in 1..limbs : a[i] # 0]

BIsOdd(a) == a # <<>> /\ a[1] % 2 = 1

FZero == [m |-> <<>>, e |-> 0]

RECURSIVE Canon(_, _)
Canon(m, e) ==
    IF m = <<>> THEN FZero
    ELSE IF m[1] = 0 THEN Canon(Tail(m), e + LimbBits)
    ELSE IF m[1] % 2 = 0 THEN Canon(BDivSmall(m, 2).q, e + 1)
    ELSE [m |-> m, e |-> e]

\* the double nearest to m * 2^e (plus a positive amount below one unit of m
\* when sticky), ties to even
Round(m, e, sticky) ==
    IF BBitLen(m) <= MantissaBits THEN Canon(m, e)
    ELSE LET s == BBitLen(m) - MantissaBits
             t == BShr(m, s - 1)
             q == BDivSmall(t.q, 2).q
             up == BIsOdd(t.q) /\ (t.sticky \/ sticky \/ BIsOdd(q))
         IN Canon(IF up THEN BAdd(q, <<1>>) ELSE q, e + s)

\* static_cast<double>(n) for 0 <= n
FFromInt(n) == Round(BFromInt(n), 0, FALSE)

FMul(a, b) == Round(BMul(a.m, b.m), a.e + b.e, FALSE)

FAdd(a, b) ==
    LET e == IF a.e < b.e THEN a.e ELSE b.e
    IN Round(BAdd(BShl(a.m, a.e - e), BShl(b.m, b.e - e)), e, FALSE)

\* a / b for a divisor whose mantissa is a single limb
GuardBits == 75

FDiv(a, b) ==
    LET d == BDivSmall(BShl(a.m, GuardBits), b.m[1])
    IN Round(d.q, (a.e - GuardBits) - b.e, d.r # 0)


(***************************************************************************)
(* execution_engine_base: emit_fill, emit_cancel and get_order on the      *)
(* executor's order store orders_ and the queue handed to it.              *)
(***************************************************************************)
Executor == [orders |-> Store, queue |-> queue_]

\* writing through the pointer get() returned: the element stays in its node
order_state_assign(S, id, st) ==
    IF id \in DOMAIN S.bid_index
    THEN [S EXCEPT !.bids[Deref(S.bids, S.bid_index[id])].st = st]
    ELSE [S EXCEPT !.asks[Deref(S.asks, S.asks_index[id])].st = st]

\* an average that is the price of the latest fill
avg_fill_price_latest(avg, filled, filled_qty, exec_price) ==
    IF filled > 0 /\ filled_qty > 0 THEN exec_price
    ELSE IF filled > 0 THEN avg ELSE FZero

\* the weighted average after a fill of filled_qty at exec_price brought the
\* cumulative quantity to filled
avg_fill_price_update(avg, filled, filled_qty, exec_price) ==
    IF filled > 0
    THEN FDiv(FAdd(FMul(avg, FFromInt(filled - filled_qty)),
                   FMul(exec_price, FFromInt(filled_qty))),
              FFromInt(filled))
    ELSE FZero

\* emit_fill that keeps a filled order in the live set
emit_fill_never_inactive(X, order, filled_qty, exec_price) ==
    LET id == order.order_id_
        S1 == IF order_queue_get(X.orders, id).found THEN X.orders
              ELSE order_queue_emplace(X.orders, order_state(order, 0, FZero))
        st == order_queue_get(S1, id).st
        filled == st.filled_qty_ + filled_qty
        avg == avg_fill_price_update(st.avg_fill_price_, filled, filled_qty, exec_price)
    IN [orders |-> order_state_assign(S1, id, [st EXCEPT !.filled_qty_ = filled,
                                                         !.avg_fill_price_ = avg]),
        queue |-> event_queue_push(X.queue,
                      fill_event(order.symbol_, order.order_id_, filled_qty,
                                 order.quantity_, order.is_buy_, exec_price))]

\* emit_fill that moves the state to the ledger before updating it
emit_fill_inactive_first(X, order, filled_qty, exec_price) ==
    LET id == order.order_id_
        S1 == IF order_queue_get(X.orders, id).found THEN X.orders
              ELSE order_queue_emplace(X.orders, order_state(order, 0, FZero))
        st == order_queue_get(S1, id).st
        filled == st.filled_qty_ + filled_qty
        avg == avg_fill_price_update(st.avg_fill_price_, filled, filled_qty, exec_price)
        S2 == order_state_assign(S1, id, [st EXCEPT !.filled_qty_ = filled,
                                                    !.avg_fill_price_ = avg])
    IN [orders |-> IF filled >= st.order_.quantity_
                   THEN order_queue_inactive(S1, st.order_.order_id_)
                   ELSE S2,
        queue |-> event_queue_push(X.queue,
                      fill_event(order.symbol_, order.order_id_, filled_qty,
                                 order.quantity_, order.is_buy_, exec_price))]

\* emit_fill that puts the cumulative quantity into the fill event
emit_fill_cumulative_event(X, order, filled_qty, exec_price) ==
    LET id == order.order_id_
        S1 == IF order_queue_get(X.orders, id).found THEN X.orders
              ELSE order_queue_emplace(X.orders, order_state(order, 0, FZero))
        st == order_queue_get(S1, id).st
        filled == st.filled_qty_ + filled_qty
        avg == avg_fill_price_update(st.avg_fill_price_, filled, filled_qty, exec_price)
        S2 == order_state_assign(S1, id, [st EXCEPT !.filled_qty_ = filled,
                                                    !.avg_fill_price_ = avg])
    IN [orders |-> IF filled >= st.order_.quantity_
                   THEN order_queue_inactive(S2, st.order_.order_id_)
                   ELSE S2,
        queue |-> event_queue_push(X.queue,
                      fill_event(order.symbol_, order.order_id_, filled,
                                 order.quantity_, order.is_buy_, exec_price))]

emit_fill(X, order, filled_qty, exec_price) ==
    LET id == order.order_id_
        \* first time this order is seen: orders_.emplace({order})
        S1 == IF order_queue_get(X.orders, id).found THEN X.orders
              ELSE order_queue_emplace(X.orders, order_state(order, 0, FZero))
        st == order_queue_get(S1, id).st
        filled == st.filled_qty_ + filled_qty
        avg == avg_fill_price_update(st.avg_fill_price_, filled, filled_qty, exec_price)
        S2 == order_state_assign(S1, id, [st EXCEPT !.filled_qty_ = filled,
                                                    !.avg_fill_price_ = avg])
    IN [orders |-> IF filled >= st.order_.quantity_
                   THEN order_queue_inactive(S2, st.order_.order_id_)
                   ELSE S2,
        queue |-> event_queue_push(X.queue,
                      fill_event(order.symbol_, order.order_id_, filled_qty,
                                 order.quantity_, order.is_buy_, exec_price))]

emit_cancel(X, order, reason) ==
    [orders |-> order_queue_inactive(X.orders, order.order_id_),
     queue |-> event_queue_push(X.queue, cancel_event(order, reason))]

get_order(X, order_id) == order_queue_get(X.orders, order_id)

(***************************************************************************)
(* SpecExec: a concrete executor calling emit_fill and emit_cancel for two *)
(* orders, a buy of 8 and a sell of 2, at the prices 1.0 and 10.0.         *)
(***************************************************************************)
ExecOrders ==
    { order_event("BTCUSD", "1", 8, TRUE, 100),
      order_event("BTCUSD", "2", 2, FALSE, 100) }

FillQtys == {0, 1, 6}

ExecPrices == {FFromInt(1), FFromInt(10)}

CancelReasons == {"IOC"}

InitExec == QueueAtRest /\ EngineAtRest /\ StoreAtRest /\ ManagerAtRest

ExecutorBecomes(X) ==
    /\ StoreBecomes(X.orders)
    /\ queue_' = X.queue

EmitFill(order, filled_qty, exec_price) ==
    /\ Len(xlog) < MaxExecOps
    /\ ExecutorBecomes(emit_fill(Executor, order, filled_qty, exec_price))
    /\ xlog' = Append(xlog, [op |-> "emit_fill", order |-> order,
                             filled_qty |-> filled_qty, exec_price |-> exec_price,
                             reason |-> "", before |-> View(Store),
                             queue_before |-> queue_])
    /\ UNCHANGED <<oplog, evars, slog, pvars>>

EmitCancel(order, reason) ==
    /\ Len(xlog) < MaxExecOps
    /\ ExecutorBecomes(emit_cancel(Executor, order, reason))
    /\ xlog' = Append(xlog, [op |-> "emit_cancel", order |-> order,
                             filled_qty |-> 0, exec_price |-> FZero,
                             reason |-> reason, before |-> View(Store),
                             queue_before |-> queue_])
    /\ UNCHANGED <<oplog, evars, slog, pvars>>

NextExec ==
    \/ \E order \in ExecOrders, q \in FillQtys, p \in ExecPrices : EmitFill(order, q, p)
    \/ \E order \in ExecOrders, reason \in CancelReasons : EmitCancel(order, reason)

SpecExec == InitExec /\ [][NextExec]_vars


(***************************************************************************)
(* Properties of the executor.                                             *)
(***************************************************************************)
LastEmit == xlog[Len(xlog)]

\* the store as it was after the i-th call
AfterEmit(i) == IF i < Len(xlog) THEN xlog[i + 1].before ELSE View(Store)

\* the cumulative filled quantity of id in view v, 0 when id is not live
FilledIn(v, id) == IF CountId(v, id) > 0 THEN FirstWithId(v, id).filled_qty_ ELSE 0

AvgIn(v, id) == IF CountId(v, id) > 0 THEN FirstWithId(v, id).avg_fill_price_ ELSE FZero

\* the emit_fill calls of log made for order id
FillsOf(log, id) ==
    SelectSeq(log, LAMBDA c : c.op = "emit_fill" /\ c.order.order_id_ = id)

RECURSIVE SumQty(_)
SumQty(calls) ==
    IF calls = <<>> THEN 0 ELSE Head(calls).filled_qty + SumQty(Tail(calls))

RECURSIVE SumInts(_)
SumInts(seq) == IF seq = <<>> THEN 0 ELSE Head(seq) + SumInts(Tail(seq))

\* C14: every live order state has filled_qty <= order.quantity, and the
\* filled quantities of the live states sum to at most their order quantities.
FilledWithinQuantity ==
    LET live == View(Store).bids \o View(Store).asks IN
    /\ \A i \in 1..Len(live) : live[i].filled_qty_ <= live[i].order_.quantity_
    /\ SumInts([i \in 1..Len(live) |-> live[i].filled_qty_])
         <= SumInts([i \in 1..Len(live) |-> live[i].order_.quantity_])

\* C14 witness: after fills and a cancel, a live order one unit short of its
\* quantity.
FilledWithinQuantityWitness ==
    /\ Len(bids_) = 1
    /\ bids_[1].st.filled_qty_ = bids_[1].st.order_.quantity_ - 1
    /\ \E i \in 1..Len(xlog) : xlog[i].op = "emit_cancel"

\* C15: an emit_fill that brings the cumulative quantity to the order's
\* quantity or beyond leaves the id out of the live set and appends to the
\* ledger one state holding the raw cumulative quantity and the average
\* updated with this fill (the fill price itself when it is the only fill).
FullFillMovesToLedger ==
    (xlog # <<>> /\ LastEmit.op = "emit_fill"
       /\ FilledIn(LastEmit.before, LastEmit.order.order_id_) + LastEmit.filled_qty
            >= LastEmit.order.quantity_) =>
        LET id == LastEmit.order.order_id_
            prev == FilledIn(LastEmit.before, id)
            total == prev + LastEmit.filled_qty
            entry == historical_ledger_[Len(historical_ledger_)]
        IN /\ CountId(View(Store), id) = 0
           /\ historical_ledger_ # <<>>
           /\ Appended(LastEmit.before.ledger, historical_ledger_, entry)
           /\ entry.order_ = LastEmit.order
           /\ entry.filled_qty_ = total
           /\ entry.avg_fill_price_ =
                FDiv(FAdd(FMul(AvgIn(LastEmit.before, id), FFromInt(prev)),
                          FMul(LastEmit.exec_price, FFromInt(LastEmit.filled_qty))),
                     FFromInt(total))
           /\ prev = 0 => entry.avg_fill_price_ = LastEmit.exec_price

\* C15 witness: a partial fill followed by an over-fill at another price.
FullFillMovesToLedgerWitness ==
    /\ Len(xlog) >= 2
    /\ LastEmit.op = "emit_fill"
    /\ FilledIn(LastEmit.before, LastEmit.order.order_id_) = 1
    /\ LastEmit.filled_qty = 6
    /\ LastEmit.order.quantity_ = 2
    /\ historical_ledger_ # <<>>
    /\ historical_ledger_[1].filled_qty_ = 7
    /\ historical_ledger_[1].avg_fill_price_ # LastEmit.exec_price

\* C16: for an order id that only emit_fill was called for, get_order(id)
\* finds a state whose filled_qty is the sum of the quantities emitted.
GetOrderAfterFills ==
    \A order \in ExecOrders :
        LET id == order.order_id_ IN
        (FillsOf(xlog, id) # <<>>
           /\ \A i \in 1..Len(xlog) :
                 xlog[i].order.order_id_ = id => xlog[i].op = "emit_fill") =>
            /\ get_order(Executor, id).found
            /\ get_order(Executor, id).st.filled_qty_ = SumQty(FillsOf(xlog, id))

\* C17: emit_fill appends to the queue exactly one Fill event carrying the
\* quantity of the call, the order's total quantity, and the id, symbol, side
\* and price of the call; with quantity 0 on an order that is not live it
\* leaves a live state with filled_qty 0 and average price 0.
EmitFillPushesOneFill ==
    (xlog # <<>> /\ LastEmit.op = "emit_fill") =>
        /\ Len(queue_) = Len(LastEmit.queue_before) + 1
        /\ SubSeq(queue_, 1, Len(queue_) - 1) = LastEmit.queue_before
        /\ LET ev == queue_[Len(queue_)] IN
            /\ ev.kind = "Fill"
            /\ ev.filled_qty_ = LastEmit.filled_qty
            /\ ev.quantity_ = LastEmit.order.quantity_
            /\ ev.order_id_ = LastEmit.order.order_id_
            /\ ev.symbol_ = LastEmit.order.symbol_
            /\ ev.is_buy_ = LastEmit.order.is_buy_
            /\ ev.price_ = LastEmit.exec_price
        /\ (LastEmit.filled_qty = 0
              /\ CountId(LastEmit.before, LastEmit.order.order_id_) = 0) =>
            /\ CountId(View(Store), LastEmit.order.order_id_) = 1
            /\ FilledIn(View(Store), LastEmit.order.order_id_) = 0
            /\ AvgIn(View(Store), LastEmit.order.order_id_) = FZero

\* C17 witness: a zero-quantity fill of an order that is not live, pushed
\* behind an earlier event.
EmitFillPushesOneFillWitness ==
    /\ xlog # <<>>
    /\ LastEmit.op = "emit_fill"
    /\ LastEmit.filled_qty = 0
    /\ CountId(LastEmit.before, LastEmit.order.order_id_) = 0
    /\ Len(queue_) >= 2
    /\ queue_[Len(queue_)].filled_qty_ = 0
    /\ queue_[Len(queue_) - 1].filled_qty_ > 0


\* exact (unrounded) product, sum and integer, as m * 2^e
XMul(a, b) == Canon(BMul(a.m, b.m), a.e + b.e)

XAdd(a, b) ==
    LET e == IF a.e < b.e THEN a.e ELSE b.e
    IN Canon(BNorm(BAdd(BShl(a.m, a.e - e), BShl(b.m, b.e - e))), e)

XInt(n) == Canon(BFromInt(n), 0)

\* the exact sum of price * quantity over calls
RECURSIVE SumValue(_)
SumValue(calls) ==
    IF calls = <<>> THEN FZero
    ELSE XAdd(XMul(Head(calls).exec_price, XInt(Head(calls).filled_qty)),
              SumValue(Tail(calls)))

\* |a - b| <= b * 2^-48, for exact values a and b: a is b up to the rounding
\* of a few operations in double arithmetic
WithinRounding(a, b) ==
    LET e == IF a.e < b.e THEN a.e ELSE b.e
        am == BNorm(BShl(a.m, a.e - e))
        bm == BNorm(BShl(b.m, b.e - e))
        diff == IF BLeq(am, bm) THEN BSub(bm, am) ELSE BSub(am, bm)
    IN BLeq(BNorm(BShl(diff, 48)), bm)

\* id has been live ever since its first emit_fill, and was never cancelled
StillLive(id) ==
    /\ CountId(View(Store), id) = 1
    /\ \A i \in 1..Len(xlog) :
          xlog[i].order.order_id_ = id =>
              /\ xlog[i].op = "emit_fill"
              /\ CountId(AfterEmit(i), id) = 1

\* the last call was a zero-quantity fill of a partly filled live order
ZeroFillOfPartial ==
    /\ xlog # <<>>
    /\ LastEmit.op = "emit_fill"
    /\ LastEmit.filled_qty = 0
    /\ FilledIn(LastEmit.before, LastEmit.order.order_id_) > 0

ZeroFillChangesNothing ==
    ZeroFillOfPartial =>
        /\ FilledIn(View(Store), LastEmit.order.order_id_)
             = FilledIn(LastEmit.before, LastEmit.order.order_id_)
        /\ AvgIn(View(Store), LastEmit.order.order_id_)
             = AvgIn(LastEmit.before, LastEmit.order.order_id_)

MovedToLedger(i) ==
    /\ CountId(AfterEmit(i), xlog[i].order.order_id_) = 0
    /\ AfterEmit(i).ledger # <<>>
    /\ AfterEmit(i).ledger[Len(AfterEmit(i).ledger)].order_ = xlog[i].order

\* C19: once a call has moved an order id to the ledger, the id is not live
\* after any later call, and no later call for that id changes the ledger.
TerminalIsFinal ==
    \A h, i \in 1..Len(xlog) :
        (h < i /\ MovedToLedger(h)) =>
            /\ CountId(AfterEmit(i), xlog[h].order.order_id_) = 0
            /\ xlog[i].order.order_id_ = xlog[h].order.order_id_
                 => AfterEmit(i).ledger = xlog[i].before.ledger

\* C20: after emit_cancel the order id is not live, the ledger holds a state
\* of the order, and the queue has gained exactly one Cancel event carrying
\* the order and the reason.
CancelMovesToLedger ==
    (xlog # <<>> /\ LastEmit.op = "emit_cancel") =>
        /\ CountId(View(Store), LastEmit.order.order_id_) = 0
        /\ \E k \in 1..Len(historical_ledger_) :
              historical_ledger_[k].order_ = LastEmit.order
        /\ queue_ = LastEmit.queue_before
                     \o <<cancel_event(LastEmit.order, LastEmit.reason)>>

(***************************************************************************)
(* double with a sign and the non-finite values.  A finite value is a sign *)
(* and a magnitude m * 2^e; zero carries no sign, since no operation of    *)
(* the portfolio manager tells -0.0 from 0.0.  The E operators are the     *)
(* exact real operations; the D operators are the IEEE-754 ones: the exact *)
(* result rounded to the nearest double, ties to even.                     *)
(***************************************************************************)
DFinite(neg, mag) == [cls |-> "finite", neg |-> neg /\ mag # FZero, mag |-> mag]

DZero == DFinite(FALSE, FZero)

\* std::numeric_limits<double>::infinity()
DInfinity == [cls |-> "inf", neg |-> FALSE, mag |-> FZero]

\* std::numeric_limits<double>::quiet_NaN()
DNaN == [cls |-> "nan", neg |-> FALSE, mag |-> FZero]

isfinite(x) == x.cls = "finite"

\* a <= b for magnitudes
MagLeq(a, b) ==
    LET e == IF a.e < b.e THEN a.e ELSE b.e
    IN BLeq(BNorm(BShl(a.m, a.e - e)), BNorm(BShl(b.m, b.e - e)))

\* a - b for magnitudes a >= b
MagSub(a, b) ==
    LET e == IF a.e < b.e THEN a.e ELSE b.e
    IN Canon(BSub(BShl(a.m, a.e - e), BShl(b.m, b.e - e)), e)

abs(n) == IF n < 0 THEN -n ELSE n

min(a, b) == IF b < a THEN b ELSE a

EFromInt(n) == DFinite(n < 0, XInt(abs(n)))

ENeg(x) == DFinite(~x.neg, x.mag)

EAbs(x) == DFinite(FALSE, x.mag)

EAdd(a, b) ==
    IF a.neg = b.neg THEN DFinite(a.neg, XAdd(a.mag, b.mag))
    ELSE IF MagLeq(b.mag, a.mag) THEN DFinite(a.neg, MagSub(a.mag, b.mag))
    ELSE DFinite(b.neg, MagSub(b.mag, a.mag))

ESub(a, b) == EAdd(a, ENeg(b))

EMul(a, b) == DFinite(a.neg # b.neg, XMul(a.mag, b.mag))

\* a <= b for finite values
ELeq(a, b) ==
    IF a.neg # b.neg THEN a.neg
    ELSE IF a.neg THEN MagLeq(b.mag, a.mag) ELSE MagLeq(a.mag, b.mag)

\* the double nearest to the real x
DRound(x) == DFinite(x.neg, Round(x.mag.m, x.mag.e, FALSE))

\* static_cast<double>(n) for an int32_t n
DFromInt(n) == DRound(EFromInt(n))

DAdd(a, b) == DRound(EAdd(a, b))

DSub(a, b) == DRound(ESub(a, b))

DMul(a, b) == DRound(EMul(a, b))

\* a / b, for a divisor b # 0 whose mantissa is a single limb
DDiv(a, b) == DFinite(a.neg # b.neg, FDiv(a.mag, b.mag))

\* a <= b as the comparison of two doubles: false when either is NaN
DLeq(a, b) ==
    IF a.cls = "nan" \/ b.cls = "nan" THEN FALSE
    ELSE IF a.cls = "inf" THEN a.neg \/ (b.cls = "inf" /\ ~b.neg)
    ELSE IF b.cls = "inf" THEN ~b.neg
    ELSE ELeq(a, b)

(***************************************************************************)
(* portfolio::PortfolioManager<EventBus, MAX_SYMBOLS>: positions, cash,    *)
(* P&L and the pre-trade risk gate over the symbol ids 0..MAX_SYMBOLS-1.   *)
(* A call takes the manager M and the bus's emitted orders and answers     *)
(* [manager, bus, threw]: threw is "none" when the call returned.          *)
(***************************************************************************)
MAX_SYMBOLS == 2     \* the template argument MAX_SYMBOLS of the manager

MaxPfOps == 3        \* calls made by the clients of SpecPortfolio

MaxFills == 4        \* on_fill calls made by the clients of SpecFills

MaxCheckedOps == 2   \* calls that return, made by the clients of SpecValidation

SymbolIds == 0..(MAX_SYMBOLS - 1)

PositionState ==
    [quantity_ |-> 0, pending_quantity_ |-> 0, average_cost_ |-> DZero,
     realized_pnl_ |-> DZero, last_price_ |-> DZero]

RiskLimits ==
    [max_positions_ |-> 1000, max_order_size_ |-> 100,
     max_notional_ |-> DFromInt(1000000)]

SymbolData == [pos |-> PositionState, risk |-> RiskLimits]

PortfolioManager(initial_capital) ==
    [symbol_data_ |-> [i \in SymbolIds |-> SymbolData],
     active_positions_ |-> [i \in SymbolIds |-> FALSE],
     cash_ |-> initial_capital,
     initial_capital_ |-> initial_capital,
     total_realized_pnl_ |-> DZero,
     order_count_ |-> 0,
     fill_count_ |-> 0,
     reject_count_ |-> 0,
     next_order_id |-> 1]

\* MockEventBus::emit_order
emit_order(bus, order_id, symbol_id, quantity, price, timestamp_ns) ==
    Append(bus, [order_id |-> order_id, symbol_id |-> symbol_id,
                 quantity |-> quantity, price |-> price,
                 timestamp_ns |-> timestamp_ns])

is_valid_symbol(symbol_id) == symbol_id < MAX_SYMBOLS

\* price <= 0.0 || !std::isfinite(price)
invalid_price(price) == DLeq(price, DZero) \/ ~isfinite(price)

has_position(M, symbol_id) ==
    is_valid_symbol(symbol_id) /\ M.active_positions_[symbol_id]

\* a risk gate that leaves the orders in flight out of the new position
can_execute_ignores_pending(M, symbol_id, quantity, price) ==
    LET pos == M.symbol_data_[symbol_id].pos
        risk == M.symbol_data_[symbol_id].risk
        abs_new_position == abs(pos.quantity_ + quantity)
    IN /\ abs(quantity) <= risk.max_order_size_
       /\ abs_new_position <= risk.max_positions_
       /\ DLeq(DMul(DFromInt(abs_new_position), price), risk.max_notional_)
       /\ (quantity <= 0 \/ DLeq(DMul(DFromInt(quantity), price), M.cash_))

\* a risk gate without the position limit
can_execute_position_unchecked(M, symbol_id, quantity, price) ==
    LET pos == M.symbol_data_[symbol_id].pos
        risk == M.symbol_data_[symbol_id].risk
        abs_new_position == abs(pos.quantity_ + pos.pending_quantity_ + quantity)
    IN /\ abs(quantity) <= risk.max_order_size_
       /\ DLeq(DMul(DFromInt(abs_new_position), price), risk.max_notional_)
       /\ (quantity <= 0 \/ DLeq(DMul(DFromInt(quantity), price), M.cash_))

can_execute(M, symbol_id, quantity, price) ==
    LET pos == M.symbol_data_[symbol_id].pos
        risk == M.symbol_data_[symbol_id].risk
        abs_quantity == abs(quantity)
        new_position == pos.quantity_ + pos.pending_quantity_ + quantity
        abs_new_position == abs(new_position)
        cost == DMul(DFromInt(quantity), price)
        order_size_ok == abs_quantity <= risk.max_order_size_
        position_ok == abs_new_position <= risk.max_positions_
        notional_ok == DLeq(DMul(DFromInt(abs_new_position), price),
                            risk.max_notional_)
        cash_ok == quantity <= 0 \/ DLeq(cost, M.cash_)
    IN order_size_ok /\ position_ok /\ notional_ok /\ cash_ok

\* an update that realizes P&L on the whole fill, also beyond the old position
update_position_on_fill_closes_all(M, symbol_id, quantity, price) ==
    LET pos == M.symbol_data_[symbol_id].pos
        old_qty == pos.quantity_
        new_qty == old_qty + quantity
        is_closing == (old_qty < 0) # (quantity < 0)
        sign == IF old_qty > 0 THEN 1 ELSE -1
        pnl_per_share == DMul(DFromInt(sign), DSub(price, pos.average_cost_))
        realized_pnl_delta ==
            DMul(DMul(DFromInt(abs(quantity)), pnl_per_share),
                 DFromInt(IF is_closing THEN 1 ELSE 0))
        new_vwap ==
            IF new_qty # 0
            THEN DDiv(DAdd(DMul(DFromInt(old_qty), pos.average_cost_),
                           DMul(DFromInt(quantity), price)),
                      DFromInt(new_qty))
            ELSE pos.average_cost_
        reversed == ((old_qty < 0) # (new_qty < 0)) /\ new_qty # 0
    IN [M EXCEPT
          !.symbol_data_[symbol_id].pos.realized_pnl_ = DAdd(@, realized_pnl_delta),
          !.total_realized_pnl_ = DAdd(@, realized_pnl_delta),
          !.symbol_data_[symbol_id].pos.average_cost_ =
              IF reversed THEN price ELSE IF is_closing THEN @ ELSE new_vwap,
          !.symbol_data_[symbol_id].pos.quantity_ = new_qty]

\* an update that leaves the portfolio-level total alone
update_position_on_fill_no_total(M, symbol_id, quantity, price) ==
    LET pos == M.symbol_data_[symbol_id].pos
        old_qty == pos.quantity_
        new_qty == old_qty + quantity
        is_closing == (old_qty < 0) # (quantity < 0)
        closed_qty == min(abs(quantity), abs(old_qty))
        sign == IF old_qty > 0 THEN 1 ELSE -1
        pnl_per_share == DMul(DFromInt(sign), DSub(price, pos.average_cost_))
        realized_pnl_delta ==
            DMul(DMul(DFromInt(closed_qty), pnl_per_share),
                 DFromInt(IF is_closing THEN 1 ELSE 0))
        new_vwap ==
            IF new_qty # 0
            THEN DDiv(DAdd(DMul(DFromInt(old_qty), pos.average_cost_),
                           DMul(DFromInt(quantity), price)),
                      DFromInt(new_qty))
            ELSE pos.average_cost_
        reversed == ((old_qty < 0) # (new_qty < 0)) /\ new_qty # 0
    IN [M EXCEPT
          !.symbol_data_[symbol_id].pos.realized_pnl_ = DAdd(@, realized_pnl_delta),
          !.symbol_data_[symbol_id].pos.average_cost_ =
              IF reversed THEN price ELSE IF is_closing THEN @ ELSE new_vwap,
          !.symbol_data_[symbol_id].pos.quantity_ = new_qty]

\* (a ^ b) < 0 for two int32_t is the sign bit of the exclusive or: exactly
\* one of a and b is negative
update_position_on_fill(M, symbol_id, quantity, price) ==
    LET pos == M.symbol_data_[symbol_id].pos
        old_qty == pos.quantity_
        new_qty == old_qty + quantity
        is_closing == (old_qty < 0) # (quantity < 0)
        closed_qty == min(abs(quantity), abs(old_qty))
        sign == IF old_qty > 0 THEN 1 ELSE -1
        pnl_per_share == DMul(DFromInt(sign), DSub(price, pos.average_cost_))
        realized_pnl_delta ==
            DMul(DMul(DFromInt(closed_qty), pnl_per_share),
                 DFromInt(IF is_closing THEN 1 ELSE 0))
        new_vwap ==
            IF new_qty # 0
            THEN DDiv(DAdd(DMul(DFromInt(old_qty), pos.average_cost_),
                           DMul(DFromInt(quantity), price)),
                      DFromInt(new_qty))
            ELSE pos.average_cost_
        reversed == ((old_qty < 0) # (new_qty < 0)) /\ new_qty # 0
    IN [M EXCEPT
          !.symbol_data_[symbol_id].pos.realized_pnl_ = DAdd(@, realized_pnl_delta),
          !.total_realized_pnl_ = DAdd(@, realized_pnl_delta),
          !.symbol_data_[symbol_id].pos.average_cost_ =
              IF reversed THEN price ELSE IF is_closing THEN @ ELSE new_vwap,
          !.symbol_data_[symbol_id].pos.quantity_ = new_qty]

\* an id generator that answers the counter after the increment
generate_order_id_after_increment(M) ==
    [id |-> M.next_order_id + 1, manager |-> [M EXCEPT !.next_order_id = @ + 1]]

\* next_order_id.fetch_add(1): the value before the increment
generate_order_id(M) ==
    [id |-> M.next_order_id, manager |-> [M EXCEPT !.next_order_id = @ + 1]]

\* a refresh that only ever sets the bit
update_active_status_set_only(M, symbol_id) ==
    IF M.symbol_data_[symbol_id].pos.quantity_ # 0
    THEN [M EXCEPT !.active_positions_[symbol_id] = TRUE]
    ELSE M

update_active_status(M, symbol_id) ==
    IF M.symbol_data_[symbol_id].pos.quantity_ # 0
    THEN [M EXCEPT !.active_positions_[symbol_id] = TRUE]
    ELSE [M EXCEPT !.active_positions_[symbol_id] = FALSE]

Returned(M, bus) == [manager |-> M, bus |-> bus, threw |-> "none"]

Threw(M, bus, what) == [manager |-> M, bus |-> bus, threw |-> what]

\* on_signal that takes an order id for a rejected signal too
on_signal_reject_takes_id(M, bus, symbol_id, quantity, price, timestamp_ns) ==
    IF ~is_valid_symbol(symbol_id) THEN Threw(M, bus, "out_of_range")
    ELSE IF invalid_price(price) THEN Threw(M, bus, "invalid_argument")
    ELSE IF quantity = 0 THEN Threw(M, bus, "invalid_argument")
    ELSE IF ~can_execute(M, symbol_id, quantity, price)
    THEN Returned([generate_order_id(M).manager EXCEPT !.reject_count_ = @ + 1], bus)
    ELSE LET M1 == [M EXCEPT
                      !.symbol_data_[symbol_id].pos.pending_quantity_ = @ + quantity]
             g == generate_order_id(M1)
         IN Returned([g.manager EXCEPT !.order_count_ = @ + 1],
                     emit_order(bus, g.id, symbol_id, quantity, price,
                                timestamp_ns))

\* on_signal that emits the size of the order without its side
on_signal_emits_size(M, bus, symbol_id, quantity, price, timestamp_ns) ==
    IF ~is_valid_symbol(symbol_id) THEN Threw(M, bus, "out_of_range")
    ELSE IF invalid_price(price) THEN Threw(M, bus, "invalid_argument")
    ELSE IF quantity = 0 THEN Threw(M, bus, "invalid_argument")
    ELSE IF ~can_execute(M, symbol_id, quantity, price)
    THEN Returned([M EXCEPT !.reject_count_ = @ + 1], bus)
    ELSE LET M1 == [M EXCEPT
                      !.symbol_data_[symbol_id].pos.pending_quantity_ = @ + quantity]
             g == generate_order_id(M1)
         IN Returned([g.manager EXCEPT !.order_count_ = @ + 1],
                     emit_order(bus, g.id, symbol_id, abs(quantity), price,
                                timestamp_ns))

on_signal(M, bus, symbol_id, quantity, price, timestamp_ns) ==
    IF ~is_valid_symbol(symbol_id) THEN Threw(M, bus, "out_of_range")
    ELSE IF invalid_price(price) THEN Threw(M, bus, "invalid_argument")
    ELSE IF quantity = 0 THEN Threw(M, bus, "invalid_argument")
    ELSE IF ~can_execute(M, symbol_id, quantity, price)
    THEN Returned([M EXCEPT !.reject_count_ = @ + 1], bus)
    ELSE LET M1 == [M EXCEPT
                      !.symbol_data_[symbol_id].pos.pending_quantity_ = @ + quantity]
             g == generate_order_id(M1)
         IN Returned([g.manager EXCEPT !.order_count_ = @ + 1],
                     emit_order(bus, g.id, symbol_id, quantity, price,
                                timestamp_ns))

\* on_fill that applies a fill of quantity zero
on_fill_zero_quantity_applied(M, bus, symbol_id, quantity, price) ==
    IF ~is_valid_symbol(symbol_id) THEN Threw(M, bus, "out_of_range")
    ELSE IF invalid_price(price) THEN Threw(M, bus, "invalid_argument")
    ELSE LET M1 == [M EXCEPT
                      !.symbol_data_[symbol_id].pos.pending_quantity_ = @ - quantity]
             M2 == update_position_on_fill(M1, symbol_id, quantity, price)
             M3 == [M2 EXCEPT
                      !.cash_ = DSub(@, DMul(DFromInt(quantity), price)),
                      !.fill_count_ = @ + 1]
         IN Returned(update_active_status(M3, symbol_id), bus)

\* on_fill that adds the cost of the fill to the cash
on_fill_adds_cost(M, bus, symbol_id, quantity, price) ==
    IF ~is_valid_symbol(symbol_id) THEN Threw(M, bus, "out_of_range")
    ELSE IF invalid_price(price) THEN Threw(M, bus, "invalid_argument")
    ELSE IF quantity = 0 THEN Threw(M, bus, "invalid_argument")
    ELSE LET M1 == [M EXCEPT
                      !.symbol_data_[symbol_id].pos.pending_quantity_ = @ - quantity]
             M2 == update_position_on_fill(M1, symbol_id, quantity, price)
             M3 == [M2 EXCEPT
                      !.cash_ = DAdd(@, DMul(DFromInt(quantity), price)),
                      !.fill_count_ = @ + 1]
         IN Returned(update_active_status(M3, symbol_id), bus)

\* on_fill that leaves the pending quantity as it was
on_fill_keeps_pending(M, bus, symbol_id, quantity, price) ==
    IF ~is_valid_symbol(symbol_id) THEN Threw(M, bus, "out_of_range")
    ELSE IF invalid_price(price) THEN Threw(M, bus, "invalid_argument")
    ELSE IF quantity = 0 THEN Threw(M, bus, "invalid_argument")
    ELSE LET M2 == update_position_on_fill(M, symbol_id, quantity, price)
             M3 == [M2 EXCEPT
                      !.cash_ = DSub(@, DMul(DFromInt(quantity), price)),
                      !.fill_count_ = @ + 1]
         IN Returned(update_active_status(M3, symbol_id), bus)

on_fill(M, bus, symbol_id, quantity, price) ==
    IF ~is_valid_symbol(symbol_id) THEN Threw(M, bus, "out_of_range")
    ELSE IF invalid_price(price) THEN Threw(M, bus, "invalid_argument")
    ELSE IF quantity = 0 THEN Threw(M, bus, "invalid_argument")
    ELSE LET M1 == [M EXCEPT
                      !.symbol_data_[symbol_id].pos.pending_quantity_ = @ - quantity]
             M2 == update_position_on_fill(M1, symbol_id, quantity, price)
             M3 == [M2 EXCEPT
                      !.cash_ = DSub(@, DMul(DFromInt(quantity), price)),
                      !.fill_count_ = @ + 1]
         IN Returned(update_active_status(M3, symbol_id), bus)

\* on_market_data that marks every symbol at the price
on_market_data_marks_all(M, bus, symbol_id, last) ==
    IF ~is_valid_symbol(symbol_id) THEN Threw(M, bus, "out_of_range")
    ELSE IF invalid_price(last) THEN Threw(M, bus, "invalid_argument")
    ELSE Returned([M EXCEPT !.symbol_data_ =
                      [s \in SymbolIds |-> [@[s] EXCEPT !.pos.last_price_ = last]]],
                  bus)

on_market_data(M, bus, symbol_id, last) ==
    IF ~is_valid_symbol(symbol_id) THEN Threw(M, bus, "out_of_range")
    ELSE IF invalid_price(last) THEN Threw(M, bus, "invalid_argument")
    ELSE Returned([M EXCEPT !.symbol_data_[symbol_id].pos.last_price_ = last], bus)

set_risk_limit(M, bus, symbol_id, limit) ==
    IF ~is_valid_symbol(symbol_id) THEN Threw(M, bus, "out_of_range")
    ELSE Returned([M EXCEPT !.symbol_data_[symbol_id].risk = limit], bus)

(***************************************************************************)
(* Clients of one manager constructed with a capital of 5.0 over a         *)
(* MockEventBus, as in tests/test_portfolio.cpp.                           *)
(* SpecPortfolio: they send valid signals, fills, market data and limits.  *)
(* SpecValidation: they send any call, valid or not; an exception is fatal *)
(* to the client, so no call follows a call that threw.                    *)
(* SpecFills: they apply fills of 3 and -3 only, and more of them.         *)
(***************************************************************************)
initial_capital == DFromInt(5)

\* 0.1
Tenth == DDiv(DFromInt(1), DFromInt(10))

SymbolInputs == 0..MAX_SYMBOLS

ValidQuantities == {1, -2}

ValidPrices == {Tenth, DFromInt(3)}

Quantities == ValidQuantities \cup {0}

Prices == ValidPrices \cup {DNaN, DInfinity, DFromInt(-3), DZero}

FillQuantities == {3, -3}

Timestamps == {1000}

TightLimits ==
    [max_positions_ |-> 2, max_order_size_ |-> 1, max_notional_ |-> DFromInt(3)]

NoCall ==
    [op |-> "none", symbol_id |-> 0, quantity |-> 0, price |-> DZero,
     timestamp_ns |-> 0, limit |-> RiskLimits, threw |-> "none",
     pos |-> PositionState, cash |-> DZero, order_id |-> 0]

InitPortfolio ==
    /\ QueueAtRest
    /\ EngineAtRest
    /\ StoreAtRest
    /\ manager = PortfolioManager(initial_capital)
    /\ event_bus_ = <<>>
    /\ plog = <<>>
    /\ thrown = NoCall
    /\ prior = [manager |-> PortfolioManager(initial_capital), bus |-> <<>>]

\* a call on the manager that answered r: a call that returned is logged, with
\* the position of its symbol and the cash before it, and with the order it
\* fills when the client fills an order of the bus (0 otherwise); a call that
\* threw is kept as the latest throw
OrderCall(order_id, op, symbol_id, quantity, price, timestamp_ns, limit, r) ==
    LET call == [op |-> op, symbol_id |-> symbol_id, quantity |-> quantity,
                 price |-> price, timestamp_ns |-> timestamp_ns, limit |-> limit,
                 threw |-> r.threw,
                 pos |-> IF is_valid_symbol(symbol_id)
                         THEN manager.symbol_data_[symbol_id].pos
                         ELSE PositionState,
                 cash |-> manager.cash_,
                 order_id |-> order_id]
    IN /\ thrown = NoCall
       /\ manager' = r.manager
       /\ event_bus_' = r.bus
       /\ plog' = IF r.threw = "none" THEN Append(plog, call) ELSE plog
       /\ thrown' = IF r.threw = "none" THEN NoCall ELSE call
       /\ prior' = [manager |-> manager, bus |-> event_bus_]
       /\ UNCHANGED <<qvars, evars, svars>>

ManagerCall(op, symbol_id, quantity, price, timestamp_ns, limit, r) ==
    OrderCall(0, op, symbol_id, quantity, price, timestamp_ns, limit, r)

Signal(bound, symbol_id, quantity, price, timestamp_ns) ==
    /\ Len(plog) < bound
    /\ ManagerCall("on_signal", symbol_id, quantity, price, timestamp_ns, RiskLimits,
                   on_signal(manager, event_bus_, symbol_id, quantity, price,
                             timestamp_ns))

Fill(bound, symbol_id, quantity, price) ==
    /\ Len(plog) < bound
    /\ ManagerCall("on_fill", symbol_id, quantity, price, 0, RiskLimits,
                   on_fill(manager, event_bus_, symbol_id, quantity, price))

MarketData(bound, symbol_id, last) ==
    /\ Len(plog) < bound
    /\ ManagerCall("on_market_data", symbol_id, 0, last, 0, RiskLimits,
                   on_market_data(manager, event_bus_, symbol_id, last))

SetRiskLimit(bound, symbol_id, limit) ==
    /\ Len(plog) < bound
    /\ ManagerCall("set_risk_limit", symbol_id, 0, DZero, 0, limit,
                   set_risk_limit(manager, event_bus_, symbol_id, limit))

NextPortfolio ==
    \/ \E s \in SymbolIds, q \in ValidQuantities, p \in ValidPrices, t \in Timestamps :
          Signal(MaxPfOps, s, q, p, t)
    \/ \E s \in SymbolIds, q \in ValidQuantities, p \in ValidPrices :
          Fill(MaxPfOps, s, q, p)
    \/ \E s \in SymbolIds, p \in ValidPrices : MarketData(MaxPfOps, s, p)
    \/ \E s \in SymbolIds : SetRiskLimit(MaxPfOps, s, TightLimits)

SpecPortfolio == InitPortfolio /\ [][NextPortfolio]_vars

NextValidation ==
    \/ \E s \in SymbolInputs, q \in Quantities, p \in Prices, t \in Timestamps :
          Signal(MaxCheckedOps, s, q, p, t)
    \/ \E s \in SymbolInputs, q \in Quantities, p \in Prices :
          Fill(MaxCheckedOps, s, q, p)
    \/ \E s \in SymbolInputs, p \in Prices : MarketData(MaxCheckedOps, s, p)
    \/ \E s \in SymbolInputs : SetRiskLimit(MaxCheckedOps, s, TightLimits)

SpecValidation == InitPortfolio /\ [][NextValidation]_vars

NextFills ==
    \E s \in SymbolIds, q \in FillQuantities, p \in ValidPrices :
        Fill(MaxFills, s, q, p)

SpecFills == InitPortfolio /\ [][NextFills]_vars

(***************************************************************************)
(* Properties of the portfolio manager.                                    *)
(***************************************************************************)
PLastIs(op) == Len(plog) > 0 /\ plog[Len(plog)].op = op

PLast == plog[Len(plog)]

Validated == {"on_signal", "on_fill", "on_market_data"}

\* the error the validation rules name for a call: the symbol id first, then
\* the price, then the quantity
NamedError(c) ==
    IF c.symbol_id >= MAX_SYMBOLS THEN "out_of_range"
    ELSE IF DLeq(c.price, DZero) THEN "invalid_argument"
    ELSE IF c.op \in {"on_signal", "on_fill"} /\ c.quantity = 0 THEN "invalid_argument"
    ELSE "none"

\* C21: on_signal, on_fill and on_market_data throw out_of_range for a symbol
\* id >= MAX_SYMBOLS, otherwise invalid_argument for a price <= 0, otherwise
\* (on_signal, on_fill) invalid_argument for a quantity of zero; a call that
\* threw left the manager and the bus exactly as they were.
ValidationRejects ==
    /\ thrown # NoCall =>
          /\ manager = prior.manager
          /\ event_bus_ = prior.bus
    /\ (thrown.op \in Validated /\ NamedError(thrown) # "none") =>
          thrown.threw = NamedError(thrown)
    /\ \A i \in 1..Len(plog) :
          plog[i].op \in Validated => NamedError(plog[i]) = "none"

\* a fill of quantity zero at a valid price threw, after a fill was applied
ValidationRejectsWitness ==
    /\ thrown.op = "on_fill"
    /\ thrown.quantity = 0
    /\ thrown.threw = "invalid_argument"
    /\ thrown.symbol_id < MAX_SYMBOLS
    /\ ~DLeq(thrown.price, DZero)
    /\ prior.manager.fill_count_ > 0

\* the risk gate's answer to the latest signal
GateAnswer == can_execute(prior.manager, PLast.symbol_id, PLast.quantity, PLast.price)

\* C22: a signal the risk gate rejects returns normally, adds one to
\* reject_count_ and changes nothing else of the manager; no order reaches the
\* bus.
RejectedSignalOnlyCounts ==
    (PLastIs("on_signal") /\ ~GateAnswer) =>
        /\ manager = [prior.manager EXCEPT !.reject_count_ = @ + 1]
        /\ event_bus_ = prior.bus

\* a signal was rejected while an earlier order of its symbol was in flight
RejectedSignalWitness ==
    /\ PLastIs("on_signal")
    /\ ~GateAnswer
    /\ manager.reject_count_ = 1
    /\ PLast.pos.pending_quantity_ # 0

\* the four conditions of the risk gate, in exact arithmetic
FourConditions(M, symbol_id, q, price) ==
    LET pos == M.symbol_data_[symbol_id].pos
        risk == M.symbol_data_[symbol_id].risk
        position == pos.quantity_ + pos.pending_quantity_ + q
    IN /\ abs(q) <= risk.max_order_size_
       /\ abs(position) <= risk.max_positions_
       /\ ELeq(EMul(EFromInt(abs(position)), price), risk.max_notional_)
       /\ (q <= 0 \/ ELeq(EMul(EFromInt(q), price), M.cash_))

\* C23: can_execute(symbol, q, price) is true exactly when |q| <=
\* max_order_size, |quantity + pending + q| <= max_positions, |quantity +
\* pending + q| * price <= max_notional, and q <= 0 or q * price <= cash.
CanExecuteIffFourConditions ==
    PLastIs("on_signal") =>
        (GateAnswer <=>
            FourConditions(prior.manager, PLast.symbol_id, PLast.quantity, PLast.price))

\* a signal was refused although the position alone, without the order in
\* flight, would have passed every limit
CanExecuteWitness ==
    /\ PLastIs("on_signal")
    /\ ~GateAnswer
    /\ PLast.pos.pending_quantity_ # 0
    /\ FourConditions([prior.manager EXCEPT
                          !.symbol_data_[PLast.symbol_id].pos.pending_quantity_ = 0],
                      PLast.symbol_id, PLast.quantity, PLast.price)

\* C24: a signal the risk gate accepts adds signed_qty to the symbol's
\* pending_quantity_, emits exactly one order with the signal's symbol id,
\* signed quantity, price and timestamp, and adds one to order_count_; cash,
\* position quantity and reject_count_ stay.
AcceptedSignalEmitsOrder ==
    (PLastIs("on_signal") /\ GateAnswer) =>
        LET c == PLast
            before == c.pos
            after == manager.symbol_data_[c.symbol_id].pos
        IN /\ after.pending_quantity_ = before.pending_quantity_ + c.quantity
           /\ Len(event_bus_) = Len(prior.bus) + 1
           /\ SubSeq(event_bus_, 1, Len(prior.bus)) = prior.bus
           /\ event_bus_[Len(event_bus_)].symbol_id = c.symbol_id
           /\ event_bus_[Len(event_bus_)].quantity = c.quantity
           /\ event_bus_[Len(event_bus_)].price = c.price
           /\ event_bus_[Len(event_bus_)].timestamp_ns = c.timestamp_ns
           /\ manager.order_count_ = prior.manager.order_count_ + 1
           /\ manager.cash_ = prior.manager.cash_
           /\ after.quantity_ = before.quantity_
           /\ manager.reject_count_ = prior.manager.reject_count_

\* a sell signal was accepted on top of an order already in flight
AcceptedSignalWitness ==
    /\ PLastIs("on_signal")
    /\ GateAnswer
    /\ PLast.quantity < 0
    /\ PLast.pos.pending_quantity_ # 0

\* C25: the k-th order the manager emits carries order id k; a signal that is
\* rejected or fails validation takes no id, so order_count_ is the latest
\* id emitted and the next id is one more.
OrderIdsCountEmissions ==
    /\ \A k \in 1..Len(event_bus_) : event_bus_[k].order_id = k
    /\ manager.order_count_ = Len(event_bus_)
    /\ manager.next_order_id = manager.order_count_ + 1

\* the first order went out with id 1, then a signal failed validation, and
\* the next id is still 2
OrderIdsWitness ==
    /\ Len(event_bus_) = 1
    /\ event_bus_[1].order_id = 1
    /\ thrown.op = "on_signal"
    /\ thrown.threw # "none"
    /\ manager.next_order_id = 2

\* the exact value of the fills of a log: the sum of quantity * price
RECURSIVE FillsValue(_)
FillsValue(calls) ==
    IF calls = <<>> THEN DZero
    ELSE IF Head(calls).op # "on_fill" THEN FillsValue(Tail(calls))
    ELSE EAdd(EMul(EFromInt(Head(calls).quantity), Head(calls).price),
              FillsValue(Tail(calls)))

\* the exact volume of the fills of a log: the sum of |quantity| * price
RECURSIVE FillsVolume(_)
FillsVolume(calls) ==
    IF calls = <<>> THEN DZero
    ELSE IF Head(calls).op # "on_fill" THEN FillsVolume(Tail(calls))
    ELSE EAdd(EMul(EFromInt(abs(Head(calls).quantity)), Head(calls).price),
              FillsVolume(Tail(calls)))

\* |a - b| <= 2^-48 * scale, in exact arithmetic: a is b up to the rounding of
\* a few double operations on values of the size of scale
WithinSlack(a, b, scale) ==
    LET diff == EAbs(ESub(a, b))
    IN ELeq(IF diff = DZero THEN diff ELSE [diff EXCEPT !.mag.e = @ + 48], scale)

WholePrices ==
    \A i \in 1..Len(plog) : plog[i].op = "on_fill" => plog[i].price.mag.e >= 0

BitmapTracksQuantity ==
    \A s \in SymbolIds :
        has_position(manager, s) <=> manager.symbol_data_[s].pos.quantity_ # 0

\* a fill brought an active position back to 0 and the bit is cleared
BitmapWitness ==
    /\ PLastIs("on_fill")
    /\ has_position(prior.manager, PLast.symbol_id)
    /\ manager.symbol_data_[PLast.symbol_id].pos.quantity_ = 0
    /\ ~has_position(manager, PLast.symbol_id)

\* the exact sum of the realized P&L of the symbols below n
RECURSIVE SumRealized(_)
SumRealized(n) ==
    IF n = 0 THEN DZero
    ELSE EAdd(manager.symbol_data_[n - 1].pos.realized_pnl_, SumRealized(n - 1))

\* the exact volume realized by the fills of a log: the sum of
\* min(|q|, |old|) * |price - avg_cost| over the fills against a position
RECURSIVE RealizedVolume(_)
RealizedVolume(calls) ==
    IF calls = <<>> THEN DZero
    ELSE LET c == Head(calls)
             pos == c.pos
             opposed == (pos.quantity_ > 0 /\ c.quantity < 0)
                        \/ (pos.quantity_ < 0 /\ c.quantity > 0)
         IN IF c.op = "on_fill" /\ opposed
            THEN EAdd(EMul(EFromInt(min(abs(c.quantity), abs(pos.quantity_))),
                           EAbs(ESub(c.price, pos.average_cost_))),
                      RealizedVolume(Tail(calls)))
            ELSE RealizedVolume(Tail(calls))

OneSymbolFilled ==
    \A i, j \in 1..Len(plog) :
        (plog[i].op = "on_fill" /\ plog[j].op = "on_fill") =>
            plog[i].symbol_id = plog[j].symbol_id

RealizedRule ==
    PLastIs("on_fill") =>
        LET c == PLast
            before == c.pos
            after == manager.symbol_data_[c.symbol_id].pos
            old == before.quantity_
            q == c.quantity
        IN /\ after.quantity_ = old + q
           /\ after.realized_pnl_ =
                 IF old = 0 \/ (old > 0) = (q > 0) THEN before.realized_pnl_
                 ELSE DAdd(before.realized_pnl_,
                           DMul(DMul(DFromInt(min(abs(q), abs(old))),
                                     DSub(c.price, before.average_cost_)),
                                DFromInt(IF old > 0 THEN 1 ELSE -1)))

\* a fill flipped a long position and realized a gain on the closed part only
RealizedWitness ==
    /\ PLastIs("on_fill")
    /\ PLast.pos.quantity_ > 0
    /\ abs(PLast.quantity) > PLast.pos.quantity_
    /\ manager.symbol_data_[PLast.symbol_id].pos.quantity_ < 0
    /\ manager.symbol_data_[PLast.symbol_id].pos.realized_pnl_ # DZero
    /\ ~manager.symbol_data_[PLast.symbol_id].pos.realized_pnl_.neg
    /\ PLast.pos.realized_pnl_ = DZero

\* C30: a fill that opens or adds (old = 0 or same sign) makes avg_cost
\* (old * avg_cost + q * price) / (old + q), taken up to rounding; a fill that
\* reduces without closing leaves avg_cost; a fill that closes the position
\* exactly resets avg_cost to 0; a fill that flips the side makes avg_cost
\* the fill price.
CostBasisRule ==
    PLastIs("on_fill") =>
        LET c == PLast
            before == c.pos
            after == manager.symbol_data_[c.symbol_id].pos
            old == before.quantity_
            q == c.quantity
            cost == EAdd(EMul(EFromInt(old), before.average_cost_),
                         EMul(EFromInt(q), c.price))
        IN IF old = 0 \/ (old > 0) = (q > 0)
           THEN WithinSlack(EMul(after.average_cost_, EFromInt(old + q)), cost,
                            EAbs(cost))
           ELSE IF old + q = 0 THEN after.average_cost_ = DZero
           ELSE IF (old + q > 0) = (old > 0)
           THEN after.average_cost_ = before.average_cost_
           ELSE after.average_cost_ = c.price

(***************************************************************************)
(* Round trips and ledgers of the portfolio manager.                       *)
(***************************************************************************)
\* the latest two calls opened a position on an untouched symbol with a fill
\* and closed it with the opposite fill at the same price
RoundTrip ==
    /\ Len(plog) >= 2
    /\ plog[Len(plog) - 1].op = "on_fill"
    /\ PLast.op = "on_fill"
    /\ plog[Len(plog) - 1].pos = PositionState
    /\ PLast.symbol_id = plog[Len(plog) - 1].symbol_id
    /\ PLast.quantity = 0 - plog[Len(plog) - 1].quantity
    /\ PLast.price = plog[Len(plog) - 1].price

\* C31: on_fill(s, q, p) followed by on_fill(s, -q, p) from a flat symbol
\* leaves realized P&L at 0, cash at its value before the two fills, the
\* position inactive (quantity 0, bit cleared) and avg_cost = 0.
RoundTripRestores ==
    RoundTrip =>
        LET after == manager.symbol_data_[PLast.symbol_id].pos
        IN /\ after.realized_pnl_ = DZero
           /\ manager.cash_ = plog[Len(plog) - 1].cash
           /\ after.quantity_ = 0
           /\ ~has_position(manager, PLast.symbol_id)
           /\ after.average_cost_ = DZero

\* the signed quantities of the orders of a bus for a symbol: the signals the
\* risk gate accepted
RECURSIVE AcceptedQuantity(_, _)
AcceptedQuantity(orders, s) ==
    IF orders = <<>> THEN 0
    ELSE (IF Head(orders).symbol_id = s THEN Head(orders).quantity ELSE 0)
         + AcceptedQuantity(Tail(orders), s)

\* the signed quantities of the fills of a log for a symbol
RECURSIVE FilledQuantity(_, _)
FilledQuantity(calls, s) ==
    IF calls = <<>> THEN 0
    ELSE (IF Head(calls).op = "on_fill" /\ Head(calls).symbol_id = s
          THEN Head(calls).quantity ELSE 0)
         + FilledQuantity(Tail(calls), s)

\* C32: for every symbol, pending_quantity is the sum of the signed
\* quantities of the accepted signals minus the sum of the signed quantities
\* of the fills applied for that symbol.
PendingIsLedger ==
    \A s \in SymbolIds :
        manager.symbol_data_[s].pos.pending_quantity_ =
            AcceptedQuantity(event_bus_, s) - FilledQuantity(plog, s)

\* a signal of q was accepted on top of an order in flight and a fill of q
\* then brought the pending quantity back to its earlier value
PendingWitness ==
    /\ Len(plog) >= 2
    /\ plog[Len(plog) - 1].op = "on_signal"
    /\ PLastIs("on_fill")
    /\ PLast.symbol_id = plog[Len(plog) - 1].symbol_id
    /\ PLast.quantity = plog[Len(plog) - 1].quantity
    /\ PLast.pos.pending_quantity_ =
          plog[Len(plog) - 1].pos.pending_quantity_ + PLast.quantity
    /\ plog[Len(plog) - 1].pos.pending_quantity_ # 0
    /\ manager.symbol_data_[PLast.symbol_id].pos.pending_quantity_ =
          plog[Len(plog) - 1].pos.pending_quantity_

(***************************************************************************)
(* Clients of a manager whose limits were set on every symbol before they  *)
(* started, and stay.                                                      *)
(* SpecLimited: they send valid signals, fills and market data.            *)
(* SpecOrders: they send signals, and fill the orders of the bus, whole or *)
(* in parts, in any order, at the order's price.                           *)
(***************************************************************************)
MaxLimitedOps == 3   \* calls made by the clients of SpecLimited

MaxOrderOps == 5     \* calls made by the clients of SpecOrders

StandingLimits ==
    [max_positions_ |-> 2, max_order_size_ |-> 2, max_notional_ |-> DFromInt(6)]

\* the manager after set_risk_limit(s, StandingLimits) for every symbol below n
RECURSIVE LimitedManager(_)
LimitedManager(n) ==
    IF n = 0 THEN PortfolioManager(initial_capital)
    ELSE set_risk_limit(LimitedManager(n - 1), <<>>, n - 1, StandingLimits).manager

InitLimited ==
    /\ QueueAtRest
    /\ EngineAtRest
    /\ StoreAtRest
    /\ manager = LimitedManager(MAX_SYMBOLS)
    /\ event_bus_ = <<>>
    /\ plog = <<>>
    /\ thrown = NoCall
    /\ prior = [manager |-> LimitedManager(MAX_SYMBOLS), bus |-> <<>>]

NextLimited ==
    \/ \E s \in SymbolIds, q \in ValidQuantities, p \in ValidPrices, t \in Timestamps :
          Signal(MaxLimitedOps, s, q, p, t)
    \/ \E s \in SymbolIds, q \in ValidQuantities, p \in ValidPrices :
          Fill(MaxLimitedOps, s, q, p)
    \/ \E s \in SymbolIds, p \in ValidPrices : MarketData(MaxLimitedOps, s, p)

SpecLimited == InitLimited /\ [][NextLimited]_vars

OrderQuantities == {2, -2}

OrderPrices == {DFromInt(2)}

\* the shares of order k filled so far
RECURSIVE FilledOf(_, _)
FilledOf(calls, k) ==
    IF calls = <<>> THEN 0
    ELSE (IF Head(calls).op = "on_fill" /\ Head(calls).order_id = k
          THEN abs(Head(calls).quantity) ELSE 0)
         + FilledOf(Tail(calls), k)

\* a fill of part of an order of the bus: the order's symbol, side and price,
\* and no more shares than the order has left
FillOrder(bound, k, shares) ==
    /\ Len(plog) < bound
    /\ k \in 1..Len(event_bus_)
    /\ shares \in 1..(abs(event_bus_[k].quantity) - FilledOf(plog, event_bus_[k].order_id))
    /\ LET order == event_bus_[k]
           quantity == IF order.quantity > 0 THEN shares ELSE 0 - shares
       IN OrderCall(order.order_id, "on_fill", order.symbol_id, quantity, order.price,
                    0, RiskLimits,
                    on_fill(manager, event_bus_, order.symbol_id, quantity,
                            order.price))

NextOrders ==
    \/ \E s \in SymbolIds, q \in OrderQuantities, p \in OrderPrices, t \in Timestamps :
          Signal(MaxOrderOps, s, q, p, t)
    \/ \E k \in 1..MaxOrderOps, shares \in 1..2 : FillOrder(MaxOrderOps, k, shares)

SpecOrders == InitLimited /\ [][NextOrders]_vars

Exposure(s) ==
    manager.symbol_data_[s].pos.quantity_ + manager.symbol_data_[s].pos.pending_quantity_

\* C37: with the limits of a symbol left as they are, |quantity +
\* pending_quantity| <= max_positions holds for the symbol in every state
\* reached by on_signal, on_fill and on_market_data calls, and on_fill never
\* changes quantity + pending_quantity.
ExposureWithinLimit ==
    /\ \A s \in SymbolIds : abs(Exposure(s)) <= manager.symbol_data_[s].risk.max_positions_
    /\ PLastIs("on_fill") =>
          Exposure(PLast.symbol_id) = PLast.pos.quantity_ + PLast.pos.pending_quantity_

\* a signal was rejected by the position limit alone, after a fill had moved
\* shares from pending to the position with the exposure at the limit
ExposureWitness ==
    /\ PLastIs("on_signal")
    /\ manager.reject_count_ = 1
    /\ abs(Exposure(PLast.symbol_id)) = manager.symbol_data_[PLast.symbol_id].risk.max_positions_
    /\ manager.symbol_data_[PLast.symbol_id].pos.quantity_ # 0
    /\ abs(PLast.quantity) <= manager.symbol_data_[PLast.symbol_id].risk.max_order_size_
    /\ abs(Exposure(PLast.symbol_id) + PLast.quantity)
          > manager.symbol_data_[PLast.symbol_id].risk.max_positions_

\* C38: if every fill is a fill of an accepted order and the limits stay,
\* |position.quantity| <= max_positions in every reachable state.
PositionWithinLimit ==
    \A s \in SymbolIds :
        abs(manager.symbol_data_[s].pos.quantity_)
            <= manager.symbol_data_[s].risk.max_positions_

\* C39: if every fill is a fill of an accepted order at the signal's price
\* and for at most the signal's quantity, cash >= 0 in every reachable state.
CashNeverNegative == DLeq(DZero, manager.cash_)

(***************************************************************************)
(* The dispatcher when a handler throws.                                   *)
(***************************************************************************)
\* C33: with the default on_error, an exception thrown by a handler during
\* the primary dispatch or the drain leaves run() at once: the step that
\* throws ends the run, and after it no event is popped or dispatched, no
\* tick is polled and the metrics hook is not called.
ThrowAbortsRun ==
    [][/\ pc # "thrown"
       /\ (on_error_rethrows /\ obs'.threw) => pc' = "thrown"]_vars

\* run() was left by an exception thrown in the drain, with events still
\* queued and ticks still in the source
ThrowAbortsRunWitness ==
    /\ pc = "thrown"
    /\ on_error_rethrows
    /\ obs.last.kind # "Market"
    /\ queue_ # <<>>
    /\ index < Len(ticks)

\* C34: with on_error overridden to log and continue, the events left in the
\* queue when a handler threw are dispatched before the next tick is polled:
\* the queue is empty whenever a tick is polled.
RecoveredErrorDrains ==
    (~on_error_rethrows /\ pc = "poll" /\ index < Len(ticks)) => queue_ = <<>>

(***************************************************************************)
(* The dispatcher under pause and stop.                                    *)
(***************************************************************************)
\* C35 as stated: if should_stop becomes true while the dispatcher is paused
\* (the flag is set and the dispatcher is in the pause loop), run() returns
\* without polling again.
StopUnderPauseReturns == obs.stop_in_pause => pc # "poll"

\* C35: a dispatcher that observes the pause flag set yields, and until it
\* observes the flag clear it neither polls the source nor pops or dispatches
\* an event; should_stop is checked after every yield and at the top of the
\* loop, and a check that finds it true returns from run(), after which
\* nothing is polled; a stop requested while paused ends the run without a
\* poll when the flag is still set at the dispatcher's next test of it.
PauseHoldsDispatcher ==
    [][/\ (pc = "pause" /\ paused_ /\ pc' # pc) => pc' = "yield"
       /\ ((pc = "pause" /\ paused_) \/ pc = "yield") =>
             /\ index' = index
             /\ tick_count' = tick_count
             /\ queue_' = queue_
             /\ obs'.handled = obs.handled
       /\ (pc \in {"yield", "loop"} /\ pc' # pc) =>
             pc' = IF stop_ THEN "returned" ELSE "pause"
       /\ pc # "returned"]_vars

\* run() returned from under the pause: a tick was dispatched, the flag was
\* observed set, stop was requested, and ticks are left in the source
PauseHoldsDispatcherWitness ==
    /\ pc = "returned"
    /\ obs.paused_seen
    /\ paused_
    /\ stop_
    /\ tick_count >= 1
    /\ index < Len(ticks)

(***************************************************************************)
(* SpecSeparate: an executor serving two orders next to a manager of two   *)
(* symbols; each step is one emit_fill or emit_cancel on the executor or   *)
(* one on_signal, on_fill or on_market_data on the manager.                *)
(***************************************************************************)
MaxSeparateOps == 4  \* calls made by the clients of SpecSeparate, on both objects

SeparateQuantities == {1}

SeparatePrices == {DFromInt(3)}

SeparateBound == Len(xlog) + Len(plog) < MaxSeparateOps

NextSeparate ==
    \/ \E order \in ExecOrders : SeparateBound /\ EmitFill(order, 1, FFromInt(10))
    \/ \E order \in ExecOrders, reason \in CancelReasons :
          SeparateBound /\ EmitCancel(order, reason)
    \/ \E s \in SymbolIds, q \in SeparateQuantities, p \in SeparatePrices,
          t \in Timestamps : SeparateBound /\ Signal(MaxSeparateOps, s, q, p, t)
    \/ \E s \in SymbolIds, q \in SeparateQuantities, p \in SeparatePrices :
          SeparateBound /\ Fill(MaxSeparateOps, s, q, p)
    \/ \E s \in SymbolIds, p \in SeparatePrices :
          SeparateBound /\ MarketData(MaxSeparateOps, s, p)

SpecSeparate == InitPortfolio /\ [][NextSeparate]_vars

\* the live states a view of the store holds for an order id (what get
\* answers for it)
LiveOf(V, id) ==
    {V.bids[i] : i \in {j \in 1..Len(V.bids) : V.bids[j].order_.order_id_ = id}}
    \cup {V.asks[i] : i \in {j \in 1..Len(V.asks) : V.asks[j].order_.order_id_ = id}}

\* C36: emit_fill or emit_cancel for order id A leaves the stored state
\* (filled quantity, average price, liveness) of every other order id as it
\* was, and on_signal, on_fill and on_market_data for symbol i leave the
\* position, pending quantity, risk limits and bitmap bit of every other
\* symbol j as they were.
OthersUntouched ==
    /\ Len(xlog) > 0 =>
          \A id \in StoreIds \ {LastEmit.order.order_id_} :
              LiveOf(View(Store), id) = LiveOf(LastEmit.before, id)
    /\ Len(plog) > 0 =>
          \A j \in SymbolIds \ {PLast.symbol_id} :
              /\ manager.symbol_data_[j] = prior.manager.symbol_data_[j]
              /\ manager.active_positions_[j] = prior.manager.active_positions_[j]

\* the executor acted on one order while the other was live and partly
\* filled, and the manager applied a fill to one symbol while the other held
\* a position
OthersUntouchedWitness ==
    /\ Len(xlog) > 0
    /\ \E id \in StoreIds \ {LastEmit.order.order_id_} :
          \E st \in LiveOf(LastEmit.before, id) : st.filled_qty_ > 0
    /\ PLastIs("on_fill")
    /\ \E j \in SymbolIds \ {PLast.symbol_id} :
          /\ has_position(prior.manager, j)
          /\ prior.manager.symbol_data_[j].pos.quantity_ # 0

(***************************************************************************)
(* The order store's index against its two sides.                          *)
(***************************************************************************)
\* order_queue::size
order_queue_size(S) == Len(S.bids) + Len(S.asks)

\* C40: after any sequence of emplace and inactive, get(id) is non-null
\* exactly when a live entry with order id = id exists, the state it returns
\* has that order id, every live entry is reachable through get by its own
\* id, and size() is the number of ids for which get is non-null.
IndexConsistent ==
    /\ \A id \in StoreIds :
          /\ order_queue_get(Store, id).found
                <=> \E st \in Live(View(Store)) : st.order_.order_id_ = id
          /\ order_queue_get(Store, id).found
                => order_queue_get(Store, id).st.order_.order_id_ = id
    /\ \A st \in Live(View(Store)) :
          /\ order_queue_get(Store, st.order_.order_id_).found
          /\ order_queue_get(Store, st.order_.order_id_).st = st
    /\ order_queue_size(Store)
          = Cardinality({id \in StoreIds : order_queue_get(Store, id).found})

====
